---- MODULE Spec2Model ----
(***************************************************************************)
(* Model of the travel-agent booking pipeline:                             *)
(*   - BookingService.ProcessBooking (internal/service/booking.go, the     *)
(*     two-stage version) sequencing an extraction engine and a            *)
(*     recommendation engine;                                              *)
(*   - InferenceEngine.ProcessRequest (internal/service/ai/inference.go)   *)
(*     with its tool-call round;                                           *)
(*   - ToolRegistry (internal/service/ai/tools/registry.go);               *)
(*   - the extraction and recommendation decoding strategies.              *)
(*                                                                         *)
(* Go values are represented as follows.                                   *)
(*   pointer   : a sequence of length 0 (nil) or 1 (<<v>>, pointing at v)  *)
(*   error     : the chain of messages built by fmt.Errorf("..: %w"), the  *)
(*               outermost first; the nil error is <<>>                    *)
(*   time.Time : a natural number                                          *)
(***************************************************************************)
EXTENDS Bags, Integers, Sequences, FiniteSets, TLC

(***************************************************************************)
(* Bounds of the model.                                                    *)
(***************************************************************************)
MaxDate == 1
MaxRecs == 2
MaxToolCalls == 2
MaxCalls == 2

(***************************************************************************)
(* Value domains.                                                          *)
(***************************************************************************)
NoError == <<>>
Nil == <<>>
Ptr(v) == <<v>>
Deref(p) == p[1]

(* fmt.Errorf("context: %w", e): the context, then the chain of e.         *)
Wrap_Discarding(context, e) == <<context>>
Wrap(context, e) == <<context>> \o e

Queries == {"", "fly NYC to Paris", "fly Paris to NYC"}
Times == 0..MaxDate

(* The readings of the clock: a call may come after every date.            *)
Clocks == 0..(MaxDate + 1)
Cities == {"", "NYC", "Paris"}
OptTimes == {Nil} \cup {Ptr(t) : t \in Times}

BookingRequests == [Query : Queries, Deadline : Times]

(* Preferences: the travel class and the top of the budget range, both     *)
(* left unspecified or both extracted from the query.                      *)
NoPreferences == [BudgetRange |-> [Max |-> Nil], TravelClass |-> ""]
BusinessPreferences == [BudgetRange |-> [Max |-> Ptr(5000)], TravelClass |-> "business"]

(* TravelParameters: every combination of cities and dates without         *)
(* preferences, and the trips from NYC to Paris with preferences.          *)
TravelParameters ==
    [DepartureCity : Cities, Destination : Cities, DepartureDate : OptTimes, ReturnDate : OptTimes, Preferences : {NoPreferences}] \cup
    [DepartureCity : {"NYC"}, Destination : {"Paris"}, DepartureDate : OptTimes \ {Nil}, ReturnDate : OptTimes \ {Nil}, Preferences : {BusinessPreferences}]

StatusProcessing == "processing"

(* The flights a model answer may list: the second is cheaper and scores  *)
(* higher than the first and flies the other way; the third has no price.  *)
Flights ==
    { [Airline |-> "British Airways", FlightNumber |-> "BA123", Price |-> 800, Currency |-> "GBP", DepartureCity |-> "NYC", ArrivalCity |-> "Paris", DepartureTime |-> 0, ArrivalTime |-> 1, RecommendationScore |-> 5],
      [Airline |-> "AirFrance", FlightNumber |-> "AF007", Price |-> 300, Currency |-> "EUR", DepartureCity |-> "Paris", ArrivalCity |-> "NYC", DepartureTime |-> 1, ArrivalTime |-> 0, RecommendationScore |-> 9],
      [Airline |-> "", FlightNumber |-> "", Price |-> 0, Currency |-> "", DepartureCity |-> "", ArrivalCity |-> "", DepartureTime |-> 0, ArrivalTime |-> 0, RecommendationScore |-> 0] }

FlightLists == UNION { [1..n -> Flights] : n \in 0..MaxRecs }

Reasonings == {"", "best value"}

FlightRecommendations == [Recommendations : FlightLists, Reasoning : Reasonings]

(* Flights only a model answer can list (the decoder rejects them): one    *)
(* without a flight number, one with a price of zero and one with a        *)
(* negative price, alone or after a complete flight.                       *)
IncompleteFlights ==
    { [Airline |-> "Iberia", FlightNumber |-> "", Price |-> 500, Currency |-> "EUR", DepartureCity |-> "NYC", ArrivalCity |-> "Paris", DepartureTime |-> 0, ArrivalTime |-> 1, RecommendationScore |-> 7],
      [Airline |-> "Iberia", FlightNumber |-> "IB31", Price |-> 0, Currency |-> "EUR", DepartureCity |-> "NYC", ArrivalCity |-> "Paris", DepartureTime |-> 0, ArrivalTime |-> 1, RecommendationScore |-> 7],
      [Airline |-> "Iberia", FlightNumber |-> "IB31", Price |-> -1, Currency |-> "EUR", DepartureCity |-> "NYC", ArrivalCity |-> "Paris", DepartureTime |-> 0, ArrivalTime |-> 1, RecommendationScore |-> 7] }

IncompleteLists == { <<f>> : f \in IncompleteFlights } \cup { << CHOOSE g \in Flights : g.Price = 800, f >> : f \in IncompleteFlights }

DocumentRecommendations == FlightRecommendations \cup [Recommendations : IncompleteLists, Reasoning : {"best value"}]

(* Errors an engine behind the orchestrator's interfaces may report.       *)
EngineErrors == { <<"context deadline exceeded">>, <<"AI provider error: invalid request">> }

UUIDs == {"uuid-a", "uuid-b"}

(***************************************************************************)
(* Text.  A model answer, a tool-call argument string and a serialized     *)
(* list of tool results are JSON texts.  A text is represented by what     *)
(* encoding/json sees in it:                                               *)
(*   [json |-> "invalid"]                     not a JSON document          *)
(*   [json |-> "null"]                        the document null            *)
(*   [json |-> "array", items |-> s]          a JSON array                 *)
(*   [json |-> "object", shape |-> k, ...]    a JSON object: k tells which *)
(*       keys it holds: those of TravelParameters (tp), those of           *)
(*       FlightRecommendation (fr), a known key holding a value of the     *)
(*       wrong JSON type ("mistyped"), or no known key at all ("other")    *)
(* A JSON null date is the nil pointer in tp.                              *)
(***************************************************************************)
InvalidJSON == [json |-> "invalid"]
NullJSON == [json |-> "null"]
ArrayJSON(items) == [json |-> "array", items |-> items]
MistypedJSON == [json |-> "object", shape |-> "mistyped"]
OtherJSON == [json |-> "object", shape |-> "other"]
TravelParametersJSON(tp) == [json |-> "object", shape |-> "travel_parameters", tp |-> tp]
FlightRecommendationJSON(fr) == [json |-> "object", shape |-> "flight_recommendation", fr |-> fr]

ZeroTravelParameters == [DepartureCity |-> "", Destination |-> "", DepartureDate |-> Nil, ReturnDate |-> Nil, Preferences |-> NoPreferences]
ZeroFlightRecommendation == [Recommendations |-> <<>>, Reasoning |-> ""]

(***************************************************************************)
(* Tools.  A tool is known by its Name(), the shape of the schema its      *)
(* Parameters() returns, and whether json.Marshal accepts the values its   *)
(* Parameters() and Requirements() hold (a NaN, a channel or a function in *)
(* them makes json.Marshal fail).  The shapes of a schema:                 *)
(*   "nil"                      Parameters() is nil                        *)
(*   "no type"                  no "type" key                              *)
(*   "no properties"            "type", but no "properties" key            *)
(*   "properties not a map"     "properties" holds a value that is not a   *)
(*                              map[string]interface{} (nil, a list, ...)  *)
(*   "property without type"    a declared property is a map without a     *)
(*                              "type" key, the others are maps with one   *)
(*   "property not a map"       a declared property is not a               *)
(*                              map[string]interface{} (nil, a string, a   *)
(*                              map[string]string): it has no "type"       *)
(*   "mixed properties"         one declared property is a map without a   *)
(*                              "type" key and another is not a map        *)
(*   "valid"                    every declared property is a map with a    *)
(*                              "type" key                                 *)
(***************************************************************************)
ToolNames == {"flight_search", "city_validation"}
SchemaShapes == {"nil", "no type", "no properties", "properties not a map", "property without type", "property not a map", "mixed properties", "valid"}

(* The order in which a range over the properties map meets a property     *)
(* that is a map without a type and one that is not a map.                 *)
PropertyOrders == {"typeless first", "not a map first"}
(* Whether its values serialize matters for a tool the registry accepts.   *)
Tools == { t \in [Name : ToolNames, Parameters : SchemaShapes, Serializable : BOOLEAN] : t.Parameters = "valid" \/ t.Serializable }

(* main: cfg.AIProvider.APIKey, the key both engines are built with.       *)
APIKey == "api-key"

Engines == {"extraction", "recommendation"}

(* Outcomes of tool.Execute: a result (which json.Marshal accepts or not)  *)
(* or an error.                                                            *)
ToolOutcomes ==
    { [result |-> "3 flights found", serializable |-> TRUE, err |-> NoError],
      [result |-> "a channel", serializable |-> FALSE, err |-> NoError],
      [result |-> "", serializable |-> TRUE, err |-> <<"upstream unavailable">>] }

ArgumentTexts == {"{\"city\":\"Paris\"}", "{city"}

ToolCallNames == ToolNames \cup {"unknown_tool"}

ToolCalls(i) == { [ID |-> <<"call", i>>, Name |-> n, Arguments |-> a] : n \in ToolCallNames, a \in ArgumentTexts }

ToolCallLists == UNION { { f \in [1..n -> UNION {ToolCalls(i) : i \in 1..n}] : \A i \in 1..n : f[i] \in ToolCalls(i) } : n \in 0..MaxToolCalls }

(***************************************************************************)
(* Decoding strategies                                                     *)
(***************************************************************************)

(* json.Unmarshal([]byte(content), &params) for models.TravelParameters:   *)
(* keys the struct does not name are ignored, keys the document lacks      *)
(* leave the zero value, and null leaves the struct untouched.             *)
UnmarshalTravelParameters_ArrayAsObject(content) ==
    CASE content.json = "invalid" -> [err |-> <<"invalid character">>, value |-> ZeroTravelParameters]
      [] content.json = "array" -> [err |-> NoError, value |-> [DepartureCity |-> "NYC", Destination |-> "Paris", DepartureDate |-> Ptr(MaxDate + 1), ReturnDate |-> Ptr(MaxDate + 1), Preferences |-> NoPreferences]]
      [] content.json = "null" -> [err |-> NoError, value |-> ZeroTravelParameters]
      [] content.json = "object" /\ content.shape = "mistyped" -> [err |-> <<"json: cannot unmarshal into Go struct field">>, value |-> ZeroTravelParameters]
      [] content.json = "object" /\ content.shape = "travel_parameters" -> [err |-> NoError, value |-> content.tp]
      [] OTHER -> [err |-> NoError, value |-> ZeroTravelParameters]
UnmarshalTravelParameters(content) ==
    CASE content.json = "invalid" -> [err |-> <<"invalid character">>, value |-> ZeroTravelParameters]
      [] content.json = "array" -> [err |-> <<"json: cannot unmarshal array into Go value">>, value |-> ZeroTravelParameters]
      [] content.json = "null" -> [err |-> NoError, value |-> ZeroTravelParameters]
      [] content.json = "object" /\ content.shape = "mistyped" -> [err |-> <<"json: cannot unmarshal into Go struct field">>, value |-> ZeroTravelParameters]
      [] content.json = "object" /\ content.shape = "travel_parameters" -> [err |-> NoError, value |-> content.tp]
      [] OTHER -> [err |-> NoError, value |-> ZeroTravelParameters]

(* ExtractionDecodingStrategy.validate, reading the clock as now.          *)
ExtractionValidate_Lenient(params, now) == NoError
ExtractionValidate_DatesFirst(params, now) ==
    IF params.DepartureDate # Nil /\ params.ReturnDate # Nil /\ Deref(params.ReturnDate) < Deref(params.DepartureDate) THEN <<"return date cannot be before departure date">>
    ELSE IF params.DepartureCity = "" THEN <<"departure city is required">>
    ELSE IF params.Destination = "" THEN <<"destination is required">>
    ELSE IF params.DepartureDate = Nil THEN <<"departure date is required">>
    ELSE IF params.ReturnDate = Nil THEN <<"return date is required">>
    ELSE IF Deref(params.DepartureDate) < now THEN <<"departure date cannot be in the past">>
    ELSE NoError
ExtractionValidate(params, now) ==
    IF params.DepartureCity = "" THEN <<"departure city is required">>
    ELSE IF params.Destination = "" THEN <<"destination is required">>
    ELSE IF params.DepartureDate = Nil THEN <<"departure date is required">>
    ELSE IF params.ReturnDate = Nil THEN <<"return date is required">>
    ELSE IF Deref(params.DepartureDate) < now THEN <<"departure date cannot be in the past">>
    ELSE IF Deref(params.ReturnDate) < Deref(params.DepartureDate) THEN <<"return date cannot be before departure date">>
    ELSE NoError

(* ExtractionDecodingStrategy.DecodeResponse *)
ExtractionDecodeResponse_Swapping(content, now) ==
    LET parsed == UnmarshalTravelParameters(content)
        swapped == [parsed.value EXCEPT !.DepartureDate = parsed.value.ReturnDate, !.ReturnDate = parsed.value.DepartureDate]
    IN  IF parsed.err # NoError
        THEN [result |-> Nil, err |-> Wrap("failed to parse travel parameters", parsed.err)]
        ELSE IF ExtractionValidate(parsed.value, now) = <<"return date cannot be before departure date">>
        THEN [result |-> Ptr(swapped), err |-> NoError]
        ELSE IF ExtractionValidate(parsed.value, now) # NoError
        THEN [result |-> Nil, err |-> Wrap("invalid travel parameters", ExtractionValidate(parsed.value, now))]
        ELSE [result |-> Ptr(parsed.value), err |-> NoError]
ExtractionDecodeResponse(content, now) ==
    LET parsed == UnmarshalTravelParameters(content)
    IN  IF parsed.err # NoError
        THEN [result |-> Nil, err |-> Wrap("failed to parse travel parameters", parsed.err)]
        ELSE IF ExtractionValidate(parsed.value, now) # NoError
        THEN [result |-> Nil, err |-> Wrap("invalid travel parameters", ExtractionValidate(parsed.value, now))]
        ELSE [result |-> Ptr(parsed.value), err |-> NoError]

(* json.Unmarshal([]byte(content), &recommendation) *)
UnmarshalFlightRecommendation_Lenient(content) ==
    IF content.json = "object" /\ content.shape = "flight_recommendation"
    THEN [err |-> NoError, value |-> content.fr]
    ELSE [err |-> NoError, value |-> ZeroFlightRecommendation]
UnmarshalFlightRecommendation(content) ==
    CASE content.json = "invalid" -> [err |-> <<"invalid character">>, value |-> ZeroFlightRecommendation]
      [] content.json = "array" -> [err |-> <<"json: cannot unmarshal array into Go value">>, value |-> ZeroFlightRecommendation]
      [] content.json = "null" -> [err |-> NoError, value |-> ZeroFlightRecommendation]
      [] content.json = "object" /\ content.shape = "mistyped" -> [err |-> <<"json: cannot unmarshal into Go struct field">>, value |-> ZeroFlightRecommendation]
      [] content.json = "object" /\ content.shape = "flight_recommendation" -> [err |-> NoError, value |-> content.fr]
      [] OTHER -> [err |-> NoError, value |-> ZeroFlightRecommendation]

(* The checks FlightRecommendationDecoder.validate makes on one flight;    *)
(* Price is the flight's price field (EstimatedPrice in ai.Flight).        *)
FlightError(flight, i) ==
    IF flight.Airline = "" THEN <<"missing airline for recommendation", i>>
    ELSE IF flight.FlightNumber = "" THEN <<"missing flight number for recommendation", i>>
    ELSE IF flight.Price <= 0 THEN <<"invalid price for recommendation", i>>
    ELSE NoError

(* FlightRecommendationDecoder.validate: the first flight in list order    *)
(* that fails a check decides the error.                                   *)
RecommendationValidate_FirstOnly(rec) ==
    IF Len(rec.Recommendations) = 0 THEN <<"no flight recommendations provided">>
    ELSE IF FlightError(rec.Recommendations[1], 1) # NoError THEN FlightError(rec.Recommendations[1], 1)
    ELSE IF rec.Reasoning = "" THEN <<"missing recommendation reasoning">>
    ELSE NoError
RecommendationValidate(rec) ==
    LET recs == rec.Recommendations
        bad == { i \in 1..Len(recs) : FlightError(recs[i], i) # NoError }
        first == CHOOSE i \in bad : \A j \in bad : i <= j
    IN  IF Len(recs) = 0 THEN <<"no flight recommendations provided">>
        ELSE IF bad # {} THEN FlightError(recs[first], first)
        ELSE IF rec.Reasoning = "" THEN <<"missing recommendation reasoning">>
        ELSE NoError

(* FlightRecommendationDecoder.DecodeResponse *)
RecommendationDecodeResponse(content) ==
    LET parsed == UnmarshalFlightRecommendation(content)
    IN  IF parsed.err # NoError
        THEN [result |-> Nil, err |-> Wrap("failed to decode flight recommendations", parsed.err)]
        ELSE IF RecommendationValidate(parsed.value) # NoError
        THEN [result |-> Nil, err |-> Wrap("invalid flight recommendations", RecommendationValidate(parsed.value))]
        ELSE [result |-> Ptr(parsed.value), err |-> NoError]

(* Whether decoding content reads the clock: ExtractionDecodingStrategy's  *)
(* validate calls time.Now() once it has found both cities and both dates; *)
(* FlightRecommendationDecoder never does.                                 *)
ReadsClock(e, content) ==
    /\ e = "extraction"
    /\ UnmarshalTravelParameters(content).err = NoError
    /\ UnmarshalTravelParameters(content).value.DepartureCity # ""
    /\ UnmarshalTravelParameters(content).value.Destination # ""
    /\ UnmarshalTravelParameters(content).value.DepartureDate # Nil
    /\ UnmarshalTravelParameters(content).value.ReturnDate # Nil

(* The decoding strategy each engine is called with: main wires the        *)
(* extraction engine to extractTravelParameters and the recommendation     *)
(* engine to getFlightRecommendations, which pass these decoders.          *)
DecodeResponse(e, content, now) ==
    IF e = "extraction" THEN ExtractionDecodeResponse(content, now) ELSE RecommendationDecodeResponse(content)

(***************************************************************************)
(* Tool registry                                                           *)
(***************************************************************************)

(* NewToolRegistry: tr.tools, a map from keys to tools, is empty.          *)
NewToolRegistry == [k \in {} |-> Nil]

(* ToolRegistry.RegisterTool: the key it tests and stores the tool under,  *)
(* name := tool.Name().                                                    *)
MapKey_Constant(tool) == "tool"
MapKey(tool) == tool.Name

(* tr.tools[key] = tool *)
StoreTool(registry, key, tool) == [k \in DOMAIN registry \cup {key} |-> IF k = key THEN tool ELSE registry[k]]

(* ToolRegistry.GetTool: (tool, ok) *)
GetTool(registry, name) ==
    IF name \notin DOMAIN registry THEN [tool |-> Nil, ok |-> FALSE]
    ELSE IF registry[name].Parameters = "nil" THEN [tool |-> Nil, ok |-> FALSE]
    ELSE [tool |-> Ptr(registry[name]), ok |-> TRUE]

(* ToolRegistry.GetTool: the registry it leaves; it only reads tr.tools.   *)
GetToolLeaves_Evicting(registry, name) == [k \in DOMAIN registry \ {name} |-> registry[k]]
GetToolLeaves(registry, name) == registry

(* ToolRegistry.ListTools *)
ListTools(registry) == { registry[k] : k \in DOMAIN registry }

(* ToolRegistry.ListMistralTools: one descriptor per entry; the order is   *)
(* that of a map iteration, so the list is kept as a set.                  *)
ListMistralTools(registry) == { [name |-> registry[k].Name, parameters |-> registry[k].Parameters] : k \in DOMAIN registry }

(* ToolRegistry.RegisterTool(tool), tool a pointer, the range over the     *)
(* properties going in order: whether it panics (an unchecked type         *)
(* assertion on "properties" or on a property fails), the error it returns *)
(* and the registry it leaves.                                             *)
RegisterToolOutcome_Replacing(registry, tool, order) ==
    IF tool = Nil THEN [panic |-> FALSE, err |-> <<"tool cannot be nil">>, registry |-> registry]
    ELSE IF MapKey(Deref(tool)) \in DOMAIN registry
    THEN [panic |-> FALSE, err |-> <<"already registered", Deref(tool).Name>>, registry |-> StoreTool(registry, MapKey(Deref(tool)), Deref(tool))]
    ELSE [panic |-> FALSE, err |-> NoError, registry |-> StoreTool(registry, MapKey(Deref(tool)), Deref(tool))]
RegisterToolOutcome(registry, tool, order) ==
    IF tool = Nil THEN [panic |-> FALSE, err |-> <<"tool cannot be nil">>, registry |-> registry]
    ELSE IF MapKey(Deref(tool)) \in DOMAIN registry THEN [panic |-> FALSE, err |-> <<"already registered", Deref(tool).Name>>, registry |-> registry]
    ELSE IF Deref(tool).Parameters = "nil" THEN [panic |-> FALSE, err |-> <<"must provide parameters schema", Deref(tool).Name>>, registry |-> registry]
    ELSE IF Deref(tool).Parameters = "no type" THEN [panic |-> FALSE, err |-> <<"parameters schema must include 'type' field", Deref(tool).Name>>, registry |-> registry]
    ELSE IF Deref(tool).Parameters = "no properties" THEN [panic |-> FALSE, err |-> <<"parameters schema must include 'properties' field", Deref(tool).Name>>, registry |-> registry]
    ELSE IF Deref(tool).Parameters = "properties not a map" THEN [panic |-> TRUE, err |-> NoError, registry |-> registry]
    ELSE IF Deref(tool).Parameters = "property without type" THEN [panic |-> FALSE, err |-> <<"parameter must specify type", Deref(tool).Name>>, registry |-> registry]
    ELSE IF Deref(tool).Parameters = "property not a map" THEN [panic |-> TRUE, err |-> NoError, registry |-> registry]
    ELSE IF Deref(tool).Parameters = "mixed properties" /\ order = "typeless first" THEN [panic |-> FALSE, err |-> <<"parameter must specify type", Deref(tool).Name>>, registry |-> registry]
    ELSE IF Deref(tool).Parameters = "mixed properties" THEN [panic |-> TRUE, err |-> NoError, registry |-> registry]
    ELSE [panic |-> FALSE, err |-> NoError, registry |-> StoreTool(registry, MapKey(Deref(tool)), Deref(tool))]

(***************************************************************************)
(* Inference engine                                                        *)
(***************************************************************************)
model == "mistral-large-latest"

(* The prompt strategies render fixed instructions and the request.        *)
GetSystemPrompt(e) == <<"system prompt", e>>
GetUserPrompt(e, request) == <<"user prompt", e, request>>

(* ProcessRequest: the AIProviderRequest it builds.                        *)
ProviderRequest_AlwaysAuto(e, request, registry) ==
    [ Model |-> model,
      Messages |-> << [Role |-> "system", Content |-> GetSystemPrompt(e)], [Role |-> "user", Content |-> GetUserPrompt(e, request)] >>,
      ResponseFormat |-> [Type |-> "json_object"],
      Tools |-> ListMistralTools(registry),
      ToolChoice |-> "auto" ]
ProviderRequest(e, request, registry) ==
    [ Model |-> model,
      Messages |-> << [Role |-> "system", Content |-> GetSystemPrompt(e)], [Role |-> "user", Content |-> GetUserPrompt(e, request)] >>,
      ResponseFormat |-> [Type |-> "json_object"],
      Tools |-> IF Cardinality(ListTools(registry)) > 0 THEN ListMistralTools(registry) ELSE {},
      ToolChoice |-> IF Cardinality(ListTools(registry)) > 0 THEN "auto" ELSE "" ]

(* makeRequest: json.Marshal(AIProviderReq) fails when a listed tool holds *)
(* a value JSON cannot represent; strings always marshal.                  *)
MarshalFails(registry) == \E k \in DOMAIN registry : ~registry[k].Serializable

(* The context.Context a caller passes: the nil interface or a context.    *)
Contexts == {"nil", "background"}

(* makeRequest: the error it returns before it reaches p.httpClient.Do:    *)
(* json.Marshal fails, or http.NewRequestWithContext refuses a nil context *)
(* (it accepts the method "POST" and the provider endpoint).               *)
RequestError(registry, ctx) ==
    IF MarshalFails(registry) THEN <<"failed to marshal request", "json: unsupported value">>
    ELSE IF ctx = "nil" THEN <<"failed to create request", "net/http: nil Context">>
    ELSE NoError

(* processToolCalls: json.Unmarshal([]byte(call.Function.Arguments), &args) *)
ArgumentsParse(text) == text = "{\"city\":\"Paris\"}"

(* processToolCalls: the tuple appended for a call that succeeded.         *)
ToolResult_FirstID(call, outcome) == [tool_call_id |-> <<"call", 1>>, name |-> call.Name, result |-> outcome.result, serializable |-> outcome.serializable]
ToolResult(call, outcome) == [tool_call_id |-> call.ID, name |-> call.Name, result |-> outcome.result, serializable |-> outcome.serializable]

(***************************************************************************)
(* State.                                                                  *)
(* Concurrent booking calls:                                               *)
(*   inflight         for each of the calls running on one BookingService, *)
(*                    its position and locals (see SpecConcurrent)         *)
(* The HTTP handler:                                                       *)
(*   hpc              where the CreateBooking call stands: "idle", "serving"*)
(*                    (in ProcessBooking), "answered" or "panicked"        *)
(*   hreq             the BookingRequest it decoded from the body (a       *)
(*                    pointer)                                             *)
(*   status           the HTTP status it answered with, 0 before           *)
(* The booking call:                                                       *)
(*   pc               where the ProcessBooking call stands: "idle" (not    *)
(*                    called yet), "extracting" / "recommending" (blocked  *)
(*                    in the engine call of that stage), "done" (returned) *)
(*                    or "panicked" (ended by a nil dereference)           *)
(*   req              the BookingRequest of the call                       *)
(*   extractReq       the request handed to the extractor (a pointer)      *)
(*   extractResult    what the extractor returned: [params, err] (a        *)
(*                    pointer, nil until it returns)                       *)
(*   recReq           the FlightRecommendationRequest handed to the        *)
(*                    recommender (a pointer)                              *)
(*   recResult        what the recommender returned: [rec, err] (a pointer)*)
(*   response, err    the pair ProcessBooking returned                     *)
(*   extractorCalls, recommenderCalls                                      *)
(*                    calls made on the two injected engines               *)
(* The engines:                                                            *)
(*   apiKey           the API key of each engine instance                  *)
(*   toolRegistry     the registry of each engine instance (tr.tools, a    *)
(*                    map from keys to tools)                              *)
(*   registered       the tools whose RegisterTool call returned nil (a    *)
(*                    bag: a tool counts once per such call)               *)
(*   registerResult   the last RegisterTool call: [tool, err], its         *)
(*                    argument and the error it returned (a pointer)       *)
(*   eng              the engine instance whose ProcessRequest runs or ran *)
(*   epc              where that ProcessRequest stands: "idle", "awaiting" *)
(*                    (in httpClient.Do), "tools" (in processToolCalls,    *)
(*                    before tool call toolIdx) or "returned"; "panicked"  *)
(*                    once a RegisterTool call has panicked                *)
(*   ctxErr           ctx.Err() of the context it was called with: the nil *)
(*                    error until the context expires or is cancelled      *)
(*   aiReq            the provider request it built (a pointer)            *)
(*   httpCalls        calls of httpClient.Do it made                       *)
(*   envelope         the AIProviderResponse it decoded (a pointer)        *)
(*   toolIdx, toolResults                                                  *)
(*                    the loop variable and the list of processToolCalls   *)
(*   toolExecs        the positions of the tool calls whose tool.Execute   *)
(*                    it called, in call order                             *)
(*   decoderInputs    the contents it passed to DecodeResponse, in order   *)
(*   clockReads       the readings of time.Now() the decoding strategy     *)
(*                    made, in order                                       *)
(*   engineResult     the pair ProcessRequest returned: [result, err] (a   *)
(*                    pointer)                                             *)
(***************************************************************************)
VARIABLES inflight, hpc, hreq, status, pc, req, extractReq, extractResult, recReq, recResult, response, err, extractorCalls, recommenderCalls,
          apiKey, toolRegistry, registered, registerResult, eng, epc, ctxErr, aiReq, httpCalls, envelope, toolIdx, toolResults, toolExecs, decoderInputs, clockReads, engineResult

handlerVars == <<hpc, hreq, status>>

bookingVars == <<inflight, handlerVars, pc, req, extractReq, extractResult, recReq, recResult, response, err, extractorCalls, recommenderCalls>>

registryVars == <<apiKey, toolRegistry, registered, registerResult>>

runVars == <<eng, epc, ctxErr, aiReq, httpCalls, envelope, toolIdx, toolResults, toolExecs, decoderInputs, clockReads, engineResult>>

vars == <<bookingVars, registryVars, runVars>>

(***************************************************************************)
(* BookingService                                                          *)
(***************************************************************************)

(* ProcessBooking: the test of req.Query against the empty string.       *)
EmptyQuery_Accepting(r) == FALSE
EmptyQuery(r) == r.Query = ""

(* ProcessBooking / getFlightRecommendations / createBookingResponse:      *)
(* if err != nil                                                           *)
ExtractionFailed_Ignored(e) == FALSE
ExtractionFailed(e) == e # NoError

RecommendationFailed(e) == e # NoError

(* getFlightRecommendations dereferences params, params.DepartureDate and  *)
(* params.ReturnDate without a nil check.                                  *)
RequestPanics(params) ==
    \/ params = Nil
    \/ Deref(params).DepartureDate = Nil
    \/ Deref(params).ReturnDate = Nil

(* getFlightRecommendations: the aiReq literal.                            *)
RecommendationRequest_Swapped(p) ==
    [ DepartureCity |-> p.Destination, Destination |-> p.DepartureCity, DepartureDate |-> Deref(p.ReturnDate), ReturnDate |-> Deref(p.DepartureDate), PreferredClass |-> "economy", MaxBudget |-> 2000, Passengers |-> 1 ]
RecommendationRequest(p) ==
    [ DepartureCity |-> p.DepartureCity, Destination |-> p.Destination, DepartureDate |-> Deref(p.DepartureDate), ReturnDate |-> Deref(p.ReturnDate), PreferredClass |-> "economy", MaxBudget |-> 2000, Passengers |-> 1 ]

(* createBookingResponse: the index of the recommendation it reads.        *)
ChosenFlight_Last(recs) == recs[Len(recs)]
ChosenFlight(recs) == recs[1]

(* createBookingResponse: the response literal.                            *)
NewBookingResponse(r, recs, deadline, id, now) ==
    [ ID |-> id, Status |-> StatusProcessing, Query |-> r.Query,
      FlightDetails |-> Ptr([ Airline |-> ChosenFlight(recs).Airline, FlightNumber |-> ChosenFlight(recs).FlightNumber, Price |-> ChosenFlight(recs).Price, Currency |-> "USD", DepartureCity |-> ChosenFlight(recs).DepartureCity, ArrivalCity |-> ChosenFlight(recs).ArrivalCity, DepartureTime |-> ChosenFlight(recs).DepartureTime, ArrivalTime |-> ChosenFlight(recs).ArrivalTime ]),
      Deadline |-> deadline, CreatedAt |-> now, UpdatedAt |-> now,
      Message |-> <<"Searching for flights to ", ChosenFlight(recs).ArrivalCity>> ]

(* createBookingResponse: the test of len(params.Recommendations).        *)
NoRecommendations_Unchecked(recs) == FALSE
NoRecommendations(recs) == Len(recs) = 0

(* createBookingResponse(req, params, deadline), with the uuid and the     *)
(* clock reading it draws: the outcome is a panic (nil params, or an index *)
(* out of range), or the pair (response, err).                             *)
createBookingResponse(r, params, deadline, id, now) ==
    IF params = Nil
    THEN [ panic |-> TRUE, response |-> Nil, err |-> NoError ]
    ELSE IF NoRecommendations(Deref(params).Recommendations)
    THEN [ panic |-> FALSE, response |-> Nil, err |-> <<"no flight recommendations found">> ]
    ELSE IF Len(Deref(params).Recommendations) = 0
    THEN [ panic |-> TRUE, response |-> Nil, err |-> NoError ]
    ELSE [ panic |-> FALSE, response |-> Ptr(NewBookingResponse(r, Deref(params).Recommendations, deadline, id, now)), err |-> NoError ]

(***************************************************************************)
(* Concurrent ProcessBooking calls on one BookingService.  The service has *)
(* two fields, the injected engines, which ProcessBooking only reads;      *)
(* req, travelParams, recommendations, response and err are locals of each *)
(* call.  A call is a record of its position and locals:                   *)
(*   pc: "idle", "extracting", "recommending" or "done"                    *)
(*   req: its BookingRequest; extractResult, recResult: what the engines   *)
(*   returned to it (pointers); recReq: the request it handed to the       *)
(*   recommender (a pointer); response, err: what it returned              *)
(***************************************************************************)
CallIds == 1..MaxCalls

IdleCall == [pc |-> "idle", req |-> [Query |-> "", Deadline |-> 0], extractResult |-> Nil, recReq |-> Nil, recResult |-> Nil, response |-> Nil, err |-> NoError]

(* ProcessBooking: the travelParams it passes to getFlightRecommendations, *)
(* the local just assigned from extractTravelParameters.                   *)
TravelParamsFor_Shared(c, params) ==
    IF \E d \in CallIds : inflight[d].extractResult # Nil /\ Deref(inflight[d].extractResult).err = NoError
    THEN Deref(inflight[CHOOSE d \in CallIds : inflight[d].extractResult # Nil /\ Deref(inflight[d].extractResult).err = NoError].extractResult).params
    ELSE params
TravelParamsFor(c, params) == params

(* Call c enters ProcessBooking with request r and runs to its first       *)
(* engine call.                                                            *)
ConcurrentProcessBooking(c, r) ==
    /\ inflight[c].pc = "idle"
    /\ inflight' = [inflight EXCEPT ![c] =
           IF EmptyQuery(r)
           THEN [@ EXCEPT !.pc = "done", !.req = r, !.err = <<"query cannot be empty">>]
           ELSE [@ EXCEPT !.pc = "extracting", !.req = r]]

(* The extractor returns (params, e) to call c, which runs on to the       *)
(* recommender call.                                                       *)
ConcurrentExtractionReturned(c, params, e) ==
    /\ inflight[c].pc = "extracting"
    /\ inflight' = [inflight EXCEPT ![c] =
           IF ExtractionFailed(e)
           THEN [@ EXCEPT !.pc = "done", !.extractResult = Ptr([params |-> params, err |-> e]),
                          !.err = Wrap("parameter extraction failed", Wrap("AI extraction failed", e))]
           ELSE [@ EXCEPT !.pc = "recommending", !.extractResult = Ptr([params |-> params, err |-> e]),
                          !.recReq = Ptr(RecommendationRequest(Deref(TravelParamsFor(c, params))))]]

(* The recommender returns (rec, e) to call c, which runs to its return.   *)
ConcurrentRecommendationReturned(c, rec, e, id, now) ==
    /\ inflight[c].pc = "recommending"
    /\ inflight' = [inflight EXCEPT ![c] =
           IF RecommendationFailed(e)
           THEN [@ EXCEPT !.pc = "done", !.recResult = Ptr([rec |-> rec, err |-> e]),
                          !.err = Wrap("failed to get flight recommendations", Wrap("AI recommendation failed", e))]
           ELSE IF createBookingResponse(inflight[c].req, rec, inflight[c].req.Deadline, id, now).err # NoError
           THEN [@ EXCEPT !.pc = "done", !.recResult = Ptr([rec |-> rec, err |-> e]),
                          !.err = Wrap("failed to create booking response", createBookingResponse(inflight[c].req, rec, inflight[c].req.Deadline, id, now).err)]
           ELSE [@ EXCEPT !.pc = "done", !.recResult = Ptr([rec |-> rec, err |-> e]),
                          !.response = createBookingResponse(inflight[c].req, rec, inflight[c].req.Deadline, id, now).response]]

(***************************************************************************)
(* BookingHandler.CreateBooking                                            *)
(***************************************************************************)
MethodPost == "POST"

Methods == {"GET", MethodPost}

(* The zero time.Time, which a body without a deadline decodes into.       *)
ZeroTime == 0

(* Request bodies: text that json.Decode rejects for a BookingRequest (not *)
(* JSON, or a deadline that is not a timestamp), or the JSON of a request. *)
MalformedBody == [json |-> "invalid"]

BookingRequestBody(r) == [json |-> "object", request |-> r]

Bodies == {MalformedBody} \cup { BookingRequestBody(r) : r \in BookingRequests }

(* validateBookingRequest, reading the clock as now.                       *)
validateBookingRequest(r, now) ==
    IF r.Query = "" THEN <<"query cannot be empty">>
    ELSE IF r.Deadline = ZeroTime THEN <<"deadline is required">>
    ELSE IF r.Deadline < now THEN <<"deadline cannot be in the past">>
    ELSE NoError

(* CreateBooking: the status it answers with once ProcessBooking returned  *)
(* (response, e); the response always encodes.                             *)
StatusOf(resp, e) == IF e # NoError THEN 500 ELSE 200

(* CreateBooking from its entry to the call of ProcessBooking.             *)
CreateBooking(method, body, now) ==
    /\ hpc = "idle"
    /\ pc = "idle"
    /\ IF method # MethodPost
       THEN hpc' = "answered" /\ status' = 405 /\ hreq' = Nil
       ELSE IF body.json = "invalid"
       THEN hpc' = "answered" /\ status' = 400 /\ hreq' = Nil
       ELSE IF validateBookingRequest(body.request, now) # NoError
       THEN hpc' = "answered" /\ status' = 400 /\ hreq' = Ptr(body.request)
       ELSE hpc' = "serving" /\ status' = status /\ hreq' = Ptr(body.request)
    /\ UNCHANGED <<inflight, pc, req, extractReq, extractResult, recReq, recResult, response, err, extractorCalls, recommenderCalls>>

(* ProcessBooking returns (resp, e) to CreateBooking, if it is the caller.  *)
HandlerAnswers(resp, e) ==
    IF hpc = "serving"
    THEN hpc' = "answered" /\ status' = StatusOf(resp, e) /\ UNCHANGED hreq
    ELSE UNCHANGED handlerVars

(* A panic in ProcessBooking unwinds CreateBooking: no status is written.  *)
HandlerPanics ==
    IF hpc = "serving"
    THEN hpc' = "panicked" /\ UNCHANGED <<hreq, status>>
    ELSE UNCHANGED handlerVars

Return(resp, e) ==
    /\ pc' = "done"
    /\ response' = resp
    /\ err' = e
    /\ HandlerAnswers(resp, e)

(* ProcessBooking: return nil, fmt.Errorf(...) *)
ReturnError_WithFailedResponse(e) ==
    Return(Ptr([ID |-> "", Status |-> "failed", Query |-> req.Query, FlightDetails |-> Nil, Deadline |-> req.Deadline, CreatedAt |-> 0, UpdatedAt |-> 0, Message |-> <<"failed", "">>]), e)
ReturnError(e) == Return(Nil, e)

(* ProcessBooking: return response, nil *)
ReturnResponse(resp) == Return(resp, NoError)

Panic ==
    /\ pc' = "panicked"
    /\ HandlerPanics
    /\ UNCHANGED <<response, err>>

(* ProcessBooking up to its first engine call: the empty-query check, then *)
(* extractTravelParameters up to s.paramExtractor.ProcessRequest.          *)
ProcessBooking(r) ==
    /\ pc = "idle"
    /\ req' = r
    /\ IF EmptyQuery(r)
       THEN /\ ReturnError(<<"query cannot be empty">>)
            /\ UNCHANGED <<extractReq, extractorCalls>>
       ELSE /\ pc' = "extracting"
            /\ extractReq' = Ptr([Query |-> r.Query, Deadline |-> r.Deadline])
            /\ extractorCalls' = extractorCalls + 1
            /\ UNCHANGED <<response, err, handlerVars>>
    /\ UNCHANGED <<inflight, extractResult, recReq, recResult, recommenderCalls>>

(* The extractor returns (params, e): the rest of extractTravelParameters, *)
(* ProcessBooking's error check, and getFlightRecommendations up to        *)
(* s.flightRecommender.ProcessRequest.                                     *)
ExtractionReturned(params, e) ==
    /\ pc = "extracting"
    /\ extractResult' = Ptr([params |-> params, err |-> e])
    /\ IF ExtractionFailed(e)
       THEN /\ ReturnError(Wrap("parameter extraction failed", Wrap("AI extraction failed", e)))
            /\ UNCHANGED <<recReq, recommenderCalls>>
       ELSE IF RequestPanics(params)
       THEN /\ Panic
            /\ UNCHANGED <<recReq, recommenderCalls>>
       ELSE /\ pc' = "recommending"
            /\ recReq' = Ptr(RecommendationRequest(Deref(params)))
            /\ recommenderCalls' = recommenderCalls + 1
            /\ UNCHANGED <<response, err, handlerVars>>
    /\ UNCHANGED <<inflight, req, extractReq, recResult, extractorCalls>>

(* The recommender returns (rec, e): the rest of getFlightRecommendations, *)
(* ProcessBooking's error check, createBookingResponse and the return.     *)
RecommendationReturned(rec, e, id, now) ==
    /\ pc = "recommending"
    /\ recResult' = Ptr([rec |-> rec, err |-> e])
    /\ IF RecommendationFailed(e)
       THEN ReturnError(Wrap("failed to get flight recommendations", Wrap("AI recommendation failed", e)))
       ELSE LET out == createBookingResponse(req, rec, req.Deadline, id, now)
            IN  IF out.panic
                THEN Panic
                ELSE IF out.err # NoError
                THEN ReturnError(Wrap("failed to create booking response", out.err))
                ELSE ReturnResponse(out.response)
    /\ UNCHANGED <<inflight, req, extractReq, extractResult, recReq, extractorCalls, recommenderCalls>>

(***************************************************************************)
(* InferenceEngine.RegisterTool and InferenceEngine.ProcessRequest, as     *)
(* steps between the points where the engine waits for the outside world   *)
(* (the provider's answer, a tool's execution).                            *)
(***************************************************************************)

(* InferenceEngine.RegisterTool -> ToolRegistry.RegisterTool *)
RegisterTool(e, tool, order) ==
    /\ epc = "idle"
    /\ toolRegistry' = [toolRegistry EXCEPT ![e] = RegisterToolOutcome(toolRegistry[e], tool, order).registry]
    /\ registerResult' = Ptr([tool |-> tool, err |-> RegisterToolOutcome(toolRegistry[e], tool, order).err])
    /\ registered' = IF tool # Nil /\ ~RegisterToolOutcome(toolRegistry[e], tool, order).panic /\ RegisterToolOutcome(toolRegistry[e], tool, order).err = NoError THEN registered (+) SetToBag({Deref(tool)}) ELSE registered
    /\ apiKey' = apiKey
    /\ epc' = IF RegisterToolOutcome(toolRegistry[e], tool, order).panic THEN "panicked" ELSE epc
    /\ UNCHANGED <<bookingVars, eng, aiReq, httpCalls, ctxErr, envelope, toolIdx, toolResults, toolExecs, decoderInputs, clockReads, engineResult>>

(* ProcessRequest returns (result, e) to its caller.  The caller is the    *)
(* booking call blocked in that stage, if there is one: control then runs  *)
(* on in ProcessBooking within the same step.                              *)
EngineReturn(result, e, id, clock) ==
    /\ epc' = "returned"
    /\ engineResult' = Ptr([result |-> result, err |-> e])
    /\ IF pc = "extracting" THEN ExtractionReturned(result, e)
       ELSE IF pc = "recommending" THEN RecommendationReturned(result, e, id, clock)
       ELSE UNCHANGED bookingVars

(* makeRequest: the calls of p.httpClient.Do it makes: one, once the HTTP  *)
(* request is built.                                                       *)
DoCalls_Retrying(requestFails) == IF requestFails THEN 0 ELSE 2
DoCalls(requestFails) == IF requestFails THEN 0 ELSE 1

(* ProcessRequest from its entry to httpClient.Do: the prompts, the        *)
(* request, the tools of the registry, and makeRequest.  The locals of the *)
(* previous invocation are gone.  When makeRequest fails, ProcessRequest   *)
(* returns its error (the caller draws no uuid and reads no clock on an    *)
(* error).                                                                 *)
ProcessRequest(e, request, ctx) ==
    /\ eng' = e
    /\ ctxErr' = NoError
    /\ aiReq' = Ptr(ProviderRequest(e, request, toolRegistry[e]))
    /\ envelope' = Nil
    /\ toolIdx' = 0
    /\ toolResults' = <<>>
    /\ toolExecs' = <<>>
    /\ decoderInputs' = <<>>
    /\ clockReads' = <<>>
    /\ UNCHANGED registryVars
    /\ IF RequestError(toolRegistry[e], ctx) # NoError
       THEN /\ httpCalls' = DoCalls(TRUE)
            /\ EngineReturn(Nil, RequestError(toolRegistry[e], ctx), "", 0)
       ELSE /\ httpCalls' = DoCalls(FALSE)
            /\ epc' = "awaiting"
            /\ engineResult' = Nil
            /\ UNCHANGED bookingVars

(* The step that decodes content with the decoding strategy and returns    *)
(* its result unchanged.                                                   *)
DecodeAndReturn_Wrapping(content, id, clock) ==
    /\ decoderInputs' = Append(decoderInputs, content)
    /\ clockReads' = IF ReadsClock(eng, content) THEN Append(clockReads, clock) ELSE clockReads
    /\ IF DecodeResponse(eng, content, clock).err # NoError
       THEN EngineReturn(Nil, Wrap("failed to decode content", DecodeResponse(eng, content, clock).err), id, clock)
       ELSE EngineReturn(DecodeResponse(eng, content, clock).result, NoError, id, clock)
DecodeAndReturn(content, id, clock) ==
    /\ decoderInputs' = Append(decoderInputs, content)
    /\ clockReads' = IF ReadsClock(eng, content) THEN Append(clockReads, clock) ELSE clockReads
    /\ EngineReturn(DecodeResponse(eng, content, clock).result, DecodeResponse(eng, content, clock).err, id, clock)

(* ProcessRequest: the choice it reads, aiResp.Choices[0].                 *)
FirstChoice_Last(resp) == resp.Choices[Len(resp.Choices)]
FirstChoice(resp) == resp.Choices[1]

(* ProcessRequest: if aiResp.Error != nil *)
ProviderErrorFirst_ChoicesFirst(resp) == resp.Error # Nil /\ Len(resp.Choices) = 0
ProviderErrorFirst(resp) == resp.Error # Nil

(* The context expires or is cancelled while httpClient.Do waits for the   *)
(* provider.                                                               *)
ContextDone(cause) ==
    /\ epc = "awaiting"
    /\ ctxErr = NoError
    /\ ctxErr' = cause
    /\ UNCHANGED <<bookingVars, registryVars, eng, epc, aiReq, httpCalls, envelope, toolIdx, toolResults, toolExecs, decoderInputs, clockReads, engineResult>>

(* httpClient.Do fails with transportErr, which is ctx.Err() once the      *)
(* context is done: ProcessRequest returns it as is.                       *)
TransportFails_Blocking(transportErr, id, clock) ==
    /\ epc = "awaiting"
    /\ ctxErr = NoError
    /\ EngineReturn(Nil, transportErr, id, clock)
    /\ UNCHANGED <<registryVars, eng, aiReq, httpCalls, ctxErr, envelope, toolIdx, toolResults, toolExecs, decoderInputs, clockReads>>
TransportFails_Decoding(transportErr, id, clock) ==
    /\ epc = "awaiting"
    /\ ctxErr # NoError => transportErr = ctxErr
    /\ DecodeAndReturn(InvalidJSON, id, clock)
    /\ UNCHANGED <<registryVars, eng, aiReq, httpCalls, ctxErr, envelope, toolIdx, toolResults, toolExecs>>
TransportFails(transportErr, id, clock) ==
    /\ epc = "awaiting"
    /\ ctxErr # NoError => transportErr = ctxErr
    /\ EngineReturn(Nil, transportErr, id, clock)
    /\ UNCHANGED <<registryVars, eng, aiReq, httpCalls, ctxErr, envelope, toolIdx, toolResults, toolExecs, decoderInputs, clockReads>>

(* The response body is not an AIProviderResponse document.                *)
EnvelopeUndecodable(id, clock) ==
    /\ epc = "awaiting"
    /\ ctxErr = NoError
    /\ EngineReturn(Nil, <<"failed to decode response", "invalid character">>, id, clock)
    /\ UNCHANGED <<registryVars, eng, aiReq, httpCalls, ctxErr, envelope, toolIdx, toolResults, toolExecs, decoderInputs, clockReads>>

(* The provider answers with the envelope resp: ProcessRequest from the    *)
(* return of makeRequest to its return, or to the first tool call.         *)
ProviderResponds(resp, id, clock) ==
    /\ epc = "awaiting"
    /\ ctxErr = NoError
    /\ envelope' = Ptr(resp)
    /\ UNCHANGED <<registryVars, eng, aiReq, httpCalls, ctxErr, toolResults, toolExecs>>
    /\ IF ProviderErrorFirst(resp)
       THEN /\ EngineReturn(Nil, <<"AI provider error", Deref(resp.Error).Message>>, id, clock)
            /\ UNCHANGED <<toolIdx, decoderInputs, clockReads>>
       ELSE IF Len(resp.Choices) = 0
       THEN /\ EngineReturn(Nil, <<"no response from AI provider">>, id, clock)
            /\ UNCHANGED <<toolIdx, decoderInputs, clockReads>>
       ELSE IF Len(FirstChoice(resp).Message.ToolCalls) > 0
       THEN /\ epc' = "tools"
            /\ toolIdx' = 1
            /\ UNCHANGED <<bookingVars, decoderInputs, clockReads, engineResult>>
       ELSE /\ DecodeAndReturn(FirstChoice(resp).Message.Content, id, clock)
            /\ UNCHANGED toolIdx

(* processToolCalls: what a failing tool call does to the loop.            *)
AbortToolCalls_Skipping(cause, id, clock) ==
    IF toolIdx < Len(FirstChoice(Deref(envelope)).Message.ToolCalls)
    THEN /\ toolIdx' = toolIdx + 1
         /\ UNCHANGED <<epc, bookingVars, decoderInputs, clockReads, engineResult>>
    ELSE /\ toolIdx' = toolIdx
         /\ DecodeAndReturn(ArrayJSON(toolResults), id, clock)
AbortToolCalls(cause, id, clock) ==
    /\ EngineReturn(Nil, Wrap("failed to process tool calls", cause), id, clock)
    /\ UNCHANGED <<toolIdx, decoderInputs, clockReads>>

(* processToolCalls: one iteration of the loop over toolCalls, the tool    *)
(* ending with outcome if it is executed; after the last iteration, the    *)
(* marshalling of the results, and ProcessRequest's decoding of them.      *)
ProcessToolCall(outcome, id, clock) ==
    /\ epc = "tools"
    /\ toolRegistry' = [toolRegistry EXCEPT ![eng] = GetToolLeaves(toolRegistry[eng], FirstChoice(Deref(envelope)).Message.ToolCalls[toolIdx].Name)]
    /\ UNCHANGED <<apiKey, registered, registerResult, eng, aiReq, httpCalls, ctxErr, envelope>>
    /\ LET calls == FirstChoice(Deref(envelope)).Message.ToolCalls
           call == calls[toolIdx]
           results == Append(toolResults, ToolResult(call, outcome))
       IN  IF ~GetTool(toolRegistry[eng], call.Name).ok
           THEN /\ AbortToolCalls(<<"tool not found in registry", call.Name>>, id, clock)
                /\ UNCHANGED <<toolResults, toolExecs>>
           ELSE IF ~ArgumentsParse(call.Arguments)
           THEN /\ AbortToolCalls(<<"failed to parse tool arguments", "invalid character">>, id, clock)
                /\ UNCHANGED <<toolResults, toolExecs>>
           ELSE IF outcome.err # NoError
           THEN /\ toolExecs' = Append(toolExecs, toolIdx)
                /\ AbortToolCalls(Wrap("failed to execute tool", Wrap(call.Name, outcome.err)), id, clock)
                /\ UNCHANGED toolResults
           ELSE /\ toolExecs' = Append(toolExecs, toolIdx)
                /\ toolResults' = results
                /\ IF toolIdx < Len(calls)
                   THEN /\ toolIdx' = toolIdx + 1
                        /\ UNCHANGED <<epc, bookingVars, decoderInputs, clockReads, engineResult>>
                   ELSE IF \E r \in 1..Len(results) : ~results[r].serializable
                   THEN /\ AbortToolCalls(<<"failed to marshal tool results", "json: unsupported type">>, id, clock)
                   ELSE /\ toolIdx' = toolIdx
                        /\ DecodeAndReturn(ArrayJSON(results), id, clock)

(***************************************************************************)
(* What a provider may answer.                                             *)
(***************************************************************************)
ContextErrors == { <<"context deadline exceeded">>, <<"context canceled">> }

TransportErrors == ContextErrors \cup { <<"connection refused">> }

(* The answers to an engine's task: every text when the message carries no *)
(* tool call, two texts when it does.                                      *)
Contents(e) ==
    {InvalidJSON, NullJSON, MistypedJSON, OtherJSON, ArrayJSON(<<>>)} \cup
    (IF e = "extraction" THEN { TravelParametersJSON(tp) : tp \in TravelParameters }
     ELSE { FlightRecommendationJSON(fr) : fr \in DocumentRecommendations })

GoodContent(e) ==
    IF e = "extraction"
    THEN TravelParametersJSON([DepartureCity |-> "NYC", Destination |-> "Paris", DepartureDate |-> Ptr(MaxDate), ReturnDate |-> Ptr(MaxDate), Preferences |-> NoPreferences])
    ELSE FlightRecommendationJSON([Recommendations |-> << CHOOSE f \in Flights : f.Price = 800 >>, Reasoning |-> "best value"])

Message(content, calls) == [Message |-> [Role |-> "assistant", Content |-> content, ToolCalls |-> calls]]

FirstChoices(e) ==
    { Message(c, <<>>) : c \in Contents(e) } \cup
    { Message(c, calls) : c \in {InvalidJSON, GoodContent(e)}, calls \in ToolCallLists \ {<<>>} }

(* A second choice, unlike the first in content and in tool calls.         *)
OtherChoices(e) == { Message(OtherJSON, <<>>), Message(GoodContent(e), <<[ID |-> <<"call", 9>>, Name |-> "flight_search", Arguments |-> "{\"city\":\"Paris\"}"]>>) }

ProviderError == Ptr([StatusCode |-> 400, Type |-> "invalid_request", Message |-> "invalid request"])

Envelopes(e) ==
    { [Error |-> Nil, Choices |-> <<>>] } \cup
    { [Error |-> Nil, Choices |-> <<c>>] : c \in FirstChoices(e) } \cup
    { [Error |-> Nil, Choices |-> <<c, d>>] : c \in {Message(GoodContent(e), <<>>), Message(InvalidJSON, <<>>)} \cup OtherChoices(e), d \in OtherChoices(e) } \cup
    { [Error |-> ProviderError, Choices |-> cs] : cs \in {<<>>} \cup { <<c>> : c \in OtherChoices(e) } }

(***************************************************************************)
(* Specification Spec: the orchestrator over arbitrary implementations of  *)
(* its two interfaces (TravelParameterExtractor, FlightRecommender), as    *)
(* the tests' mocks are: each returns any pair of a pointer and an error.  *)
(***************************************************************************)
ExtractorResults == [params : {Nil} \cup {Ptr(p) : p \in TravelParameters}, err : {NoError} \cup EngineErrors]

RecommenderResults == [rec : {Nil} \cup {Ptr(r) : r \in FlightRecommendations}, err : {NoError} \cup EngineErrors]

InitBooking ==
    /\ inflight = [c \in CallIds |-> IdleCall]
    /\ hpc = "idle"
    /\ hreq = Nil
    /\ status = 0
    /\ pc = "idle"
    /\ req = [Query |-> "", Deadline |-> 0]
    /\ extractReq = Nil
    /\ extractResult = Nil
    /\ recReq = Nil
    /\ recResult = Nil
    /\ response = Nil
    /\ err = NoError
    /\ extractorCalls = 0
    /\ recommenderCalls = 0

(* NewInferenceEngine: an empty registry; no ProcessRequest has run.       *)
InitEngines ==
    /\ apiKey = [e \in Engines |-> APIKey]
    /\ toolRegistry = [e \in Engines |-> NewToolRegistry]
    /\ registered = EmptyBag
    /\ registerResult = Nil
    /\ epc = "idle"
    /\ ctxErr = NoError
    /\ aiReq = Nil
    /\ httpCalls = 0
    /\ envelope = Nil
    /\ toolIdx = 0
    /\ toolResults = <<>>
    /\ toolExecs = <<>>
    /\ decoderInputs = <<>>
    /\ clockReads = <<>>
    /\ engineResult = Nil

Init ==
    /\ InitBooking
    /\ InitEngines
    /\ eng = "extraction"

CallProcessBooking ==
    /\ hpc = "idle"
    /\ \E r \in BookingRequests : ProcessBooking(r)
    /\ UNCHANGED <<registryVars, runVars>>

ExtractorReturns ==
    /\ \E x \in ExtractorResults : ExtractionReturned(x.params, x.err)
    /\ UNCHANGED <<registryVars, runVars>>

RecommenderReturns ==
    /\ \E x \in RecommenderResults, id \in UUIDs, now \in Times : RecommendationReturned(x.rec, x.err, id, now)
    /\ UNCHANGED <<registryVars, runVars>>

Next ==
    \/ CallProcessBooking
    \/ ExtractorReturns
    \/ RecommenderReturns

Spec == Init /\ [][Next]_vars

(***************************************************************************)
(* Specification SpecEngine: one engine instance, of either task, called   *)
(* directly: tools are registered before the engine serves requests, and   *)
(* ProcessRequest is called with the strategies of the engine's task.      *)
(***************************************************************************)
InitEngine ==
    /\ InitBooking
    /\ InitEngines
    /\ eng \in Engines

(* uuid.New() is called by createBookingResponse only.                     *)
NewUUIDs == IF pc = "recommending" THEN UUIDs ELSE {"uuid-a"}

EngineRequests(e) ==
    IF e = "extraction" THEN { [Query |-> "fly NYC to Paris", Deadline |-> MaxDate] }
    ELSE { RecommendationRequest([DepartureCity |-> "NYC", Destination |-> "Paris", DepartureDate |-> Ptr(MaxDate), ReturnDate |-> Ptr(MaxDate), Preferences |-> NoPreferences]) }

ToolArguments == {Nil} \cup {Ptr(t) : t \in Tools}

CallRegisterTool == \E tool \in ToolArguments, order \in PropertyOrders : RegisterTool(eng, tool, order)

CallProcessRequest ==
    /\ epc \in {"idle", "returned"}
    /\ \E request \in EngineRequests(eng), ctx \in Contexts : ProcessRequest(eng, request, ctx)

ContextEnds == \E cause \in ContextErrors : ContextDone(cause)

DoFails == \E e \in TransportErrors, id \in NewUUIDs, now \in Clocks : TransportFails(e, id, now)

BodyUndecodable == \E id \in NewUUIDs, now \in Clocks : EnvelopeUndecodable(id, now)

EnvelopesOf == [e \in Engines |-> Envelopes(e)]

ProviderAnswers == \E resp \in EnvelopesOf[eng], id \in NewUUIDs, now \in Clocks : ProviderResponds(resp, id, now)

ToolCallLoop == \E outcome \in ToolOutcomes, id \in NewUUIDs, now \in Clocks : ProcessToolCall(outcome, id, now)

NextEngine ==
    \/ CallRegisterTool
    \/ CallProcessRequest
    \/ ContextEnds
    \/ DoFails
    \/ BodyUndecodable
    \/ ProviderAnswers
    \/ ToolCallLoop

SpecEngine == InitEngine /\ [][NextEngine]_vars

(***************************************************************************)
(* Specification SpecWired: the booking service over the two               *)
(* InferenceEngine instances main builds, on which it registers no tool,   *)
(* called directly with any request and a context the caller may cancel.   *)
(* An engine call made by ProcessBooking enters ProcessRequest in the next *)
(* step.                                                                   *)
(***************************************************************************)
ExtractorEntered ==
    /\ pc = "extracting"
    /\ epc = "idle"
    /\ ProcessRequest("extraction", Deref(extractReq), "background")

RecommenderEntered ==
    /\ pc = "recommending"
    /\ epc = "returned"
    /\ eng = "extraction"
    /\ ProcessRequest("recommendation", Deref(recReq), "background")

NextWired ==
    \/ CallProcessBooking
    \/ ExtractorEntered
    \/ RecommenderEntered
    \/ ContextEnds
    \/ DoFails
    \/ BodyUndecodable
    \/ ProviderAnswers
    \/ ToolCallLoop

SpecWired == Init /\ [][NextWired]_vars

(***************************************************************************)
(* Specification SpecWiredFair: SpecWired when the caller's context has a  *)
(* deadline or is eventually cancelled and every tool execution returns:   *)
(* the program takes its own steps (weak fairness of the entries into      *)
(* ProcessRequest and of the tool-call loop), the context ends while       *)
(* httpClient.Do is waiting unless Do returns first, and Do returns once   *)
(* the context is done.  The provider need never answer.                   *)
(***************************************************************************)
DoAborted == ctxErr # NoError /\ DoFails

SpecWiredFair ==
    /\ SpecWired
    /\ WF_vars(ExtractorEntered)
    /\ WF_vars(RecommenderEntered)
    /\ WF_vars(ToolCallLoop)
    /\ WF_vars(ContextEnds)
    /\ WF_vars(DoAborted)

(***************************************************************************)
(* Specification SpecConcurrent: MaxCalls goroutines call ProcessBooking   *)
(* on the same BookingService, each with its own request, interleaved at   *)
(* the engine calls; the engines are any implementations of the two        *)
(* interfaces that return what the decoders let through (parameters with   *)
(* both dates, a list of flights or an empty one) or an error.             *)
(***************************************************************************)
ConcurrentRequests ==
    { [Query |-> "", Deadline |-> 0], [Query |-> "fly NYC to Paris", Deadline |-> 0], [Query |-> "fly Paris to NYC", Deadline |-> 1] }

ConcurrentExtractorResults ==
    { [params |-> Nil, err |-> <<"context deadline exceeded">>],
      [params |-> Ptr([DepartureCity |-> "NYC", Destination |-> "Paris", DepartureDate |-> Ptr(0), ReturnDate |-> Ptr(1), Preferences |-> NoPreferences]), err |-> NoError],
      [params |-> Ptr([DepartureCity |-> "Paris", Destination |-> "NYC", DepartureDate |-> Ptr(1), ReturnDate |-> Ptr(1), Preferences |-> NoPreferences]), err |-> NoError] }

ConcurrentRecommenderResults ==
    { [rec |-> Nil, err |-> <<"context deadline exceeded">>],
      [rec |-> Ptr([Recommendations |-> <<>>, Reasoning |-> ""]), err |-> NoError] } \cup
    { [rec |-> Ptr([Recommendations |-> <<f>>, Reasoning |-> "best value"]), err |-> NoError] : f \in { g \in Flights : g.Price > 0 } }

(* uuid.New() and time.Now() in call c.                                    *)
ConcurrentUUID(c) == <<"uuid", c>>

InitConcurrent ==
    /\ Init

CallsEnter ==
    /\ \E c \in CallIds, r \in ConcurrentRequests : ConcurrentProcessBooking(c, r)
    /\ UNCHANGED <<handlerVars, pc, req, extractReq, extractResult, recReq, recResult, response, err, extractorCalls, recommenderCalls, registryVars, runVars>>

CallsExtracted ==
    /\ \E c \in CallIds, x \in ConcurrentExtractorResults : ConcurrentExtractionReturned(c, x.params, x.err)
    /\ UNCHANGED <<handlerVars, pc, req, extractReq, extractResult, recReq, recResult, response, err, extractorCalls, recommenderCalls, registryVars, runVars>>

CallsRecommended ==
    /\ \E c \in CallIds, x \in ConcurrentRecommenderResults : ConcurrentRecommendationReturned(c, x.rec, x.err, ConcurrentUUID(c), 0)
    /\ UNCHANGED <<handlerVars, pc, req, extractReq, extractResult, recReq, recResult, response, err, extractorCalls, recommenderCalls, registryVars, runVars>>

NextConcurrent ==
    \/ CallsEnter
    \/ CallsExtracted
    \/ CallsRecommended

SpecConcurrent == InitConcurrent /\ [][NextConcurrent]_vars

(***************************************************************************)
(* Specification SpecHandler: the program as main wires it, from the HTTP  *)
(* handler on: CreateBooking decodes and validates the request and calls   *)
(* ProcessBooking with context.Background(), which is never done.          *)
(***************************************************************************)
CallCreateBooking ==
    /\ \E method \in Methods, body \in Bodies, now \in Clocks : CreateBooking(method, body, now)
    /\ UNCHANGED <<registryVars, runVars>>

BookingEntered ==
    /\ hpc = "serving"
    /\ ProcessBooking(Deref(hreq))
    /\ UNCHANGED <<registryVars, runVars>>

NextHandler ==
    \/ CallCreateBooking
    \/ BookingEntered
    \/ ExtractorEntered
    \/ RecommenderEntered
    \/ DoFails
    \/ BodyUndecodable
    \/ ProviderAnswers
    \/ ToolCallLoop

SpecHandler == Init /\ [][NextHandler]_vars

(***************************************************************************)
(* Properties                                                              *)
(***************************************************************************)
Called == pc # "idle"

Ended == pc \in {"done", "panicked"}

ExtractionSucceeded == extractResult # Nil /\ Deref(extractResult).err = NoError

RecommendationSucceeded == recResult # Nil /\ Deref(recResult).err = NoError /\ Deref(recResult).rec # Nil

(* C1: a ProcessBooking call whose request has an empty query has returned *)
(* the empty-query error and no response, whatever the deadline, and       *)
(* neither engine was invoked: no call on the extractor or the recommender,*)
(* no ProcessRequest entered, no HTTP call made.                           *)
C1_EmptyQueryRejected ==
    (Called /\ req.Query = "") =>
        /\ pc = "done"
        /\ response = Nil
        /\ err = <<"query cannot be empty">>
        /\ extractorCalls = 0 /\ recommenderCalls = 0
        /\ extractReq = Nil /\ recReq = Nil
        /\ epc = "idle" /\ httpCalls = 0 /\ aiReq = Nil

C1_Witness == pc = "done" /\ req.Query = "" /\ req.Deadline = MaxDate /\ err # NoError

(* C2: once the extractor has returned an error (a context-deadline error  *)
(* included), with or without parameters, ProcessBooking has returned an   *)
(* error and no response, and the recommender was not invoked.             *)
C2_ExtractionErrorAborts ==
    (extractResult # Nil /\ Deref(extractResult).err # NoError) =>
        /\ pc = "done"
        /\ response = Nil
        /\ err # NoError
        /\ recommenderCalls = 0 /\ recReq = Nil /\ recResult = Nil

C2_Witness ==
    /\ pc = "done"
    /\ extractResult # Nil
    /\ Deref(extractResult).err = <<"context deadline exceeded">>
    /\ Deref(extractResult).params # Nil
    /\ ~RequestPanics(Deref(extractResult).params)
    /\ err # NoError

(* C3: when the recommender has returned a recommendation with an empty    *)
(* list and no error, ProcessBooking has returned the no-recommendations   *)
(* error and no response; it did not end in an index-out-of-range panic.   *)
C3_EmptyListRejected ==
    (RecommendationSucceeded /\ Len(Deref(Deref(recResult).rec).Recommendations) = 0) =>
        /\ pc = "done"
        /\ response = Nil
        /\ err = <<"failed to create booking response", "no flight recommendations found">>

C3_Witness ==
    /\ RecommendationSucceeded
    /\ Len(Deref(Deref(recResult).rec).Recommendations) = 0
    /\ pc = "done"

(* C4: when both stages succeeded and the list is not empty, ProcessBooking*)
(* has returned no error and a response with a non-empty id, status        *)
(* "processing", the request's query and deadline, and a flight whose      *)
(* airline, flight number, price, cities and times are those of the first  *)
(* recommendation, whatever the later ones are.                            *)
C4_FirstRecommendationChosen ==
    (ExtractionSucceeded /\ RecommendationSucceeded /\ Len(Deref(Deref(recResult).rec).Recommendations) > 0) =>
        LET first == Deref(Deref(recResult).rec).Recommendations[1]
        IN  /\ pc = "done"
            /\ err = NoError
            /\ response # Nil
            /\ Deref(response).ID # ""
            /\ Deref(response).Status = "processing"
            /\ Deref(response).Query = req.Query
            /\ Deref(response).Deadline = req.Deadline
            /\ Deref(response).FlightDetails # Nil
            /\ Deref(Deref(response).FlightDetails).Airline = first.Airline
            /\ Deref(Deref(response).FlightDetails).FlightNumber = first.FlightNumber
            /\ Deref(Deref(response).FlightDetails).Price = first.Price
            /\ Deref(Deref(response).FlightDetails).DepartureCity = first.DepartureCity
            /\ Deref(Deref(response).FlightDetails).ArrivalCity = first.ArrivalCity
            /\ Deref(Deref(response).FlightDetails).DepartureTime = first.DepartureTime
            /\ Deref(Deref(response).FlightDetails).ArrivalTime = first.ArrivalTime

C4_Witness ==
    /\ pc = "done"
    /\ response # Nil
    /\ RecommendationSucceeded
    /\ Len(Deref(Deref(recResult).rec).Recommendations) = 2
    /\ Deref(Deref(recResult).rec).Recommendations[2].Price < Deref(Deref(recResult).rec).Recommendations[1].Price
    /\ Deref(Deref(recResult).rec).Recommendations[2].RecommendationScore > Deref(Deref(recResult).rec).Recommendations[1].RecommendationScore
    /\ req.Deadline = 0

(* C5: a ProcessBooking call that has returned has returned either a       *)
(* response and no error, or an error and no response; after a failure of  *)
(* any stage (empty query, extraction, recommendation, empty list) it is   *)
(* the latter.  The only calls that end without returning are those in     *)
(* which an injected engine reported no error and yet gave no parameters,  *)
(* no dates or no recommendation.                                          *)
C5_ResponseXorError ==
    /\ pc = "done" =>
        /\ (response = Nil) # (err = NoError)
        /\ ( \/ req.Query = ""
             \/ (extractResult # Nil /\ Deref(extractResult).err # NoError)
             \/ (recResult # Nil /\ Deref(recResult).err # NoError)
             \/ (RecommendationSucceeded /\ Len(Deref(Deref(recResult).rec).Recommendations) = 0) )
           => (response = Nil /\ err # NoError)
    /\ pc = "panicked" =>
        \/ (ExtractionSucceeded /\ RequestPanics(Deref(extractResult).params))
        \/ (recResult # Nil /\ Deref(recResult).err = NoError /\ Deref(recResult).rec = Nil)

C5_Witness ==
    /\ pc = "done"
    /\ recResult # Nil
    /\ Deref(recResult).err # NoError
    /\ Deref(recResult).rec # Nil
    /\ response = Nil

(* C6: the recommender is invoked at most once in a ProcessBooking call,   *)
(* and only once the extractor, invoked once, has returned parameters and  *)
(* no error; the request it is given carries the departure city, the       *)
(* destination, the departure date and the return date of those parameters.*)
C6_RecommendationAfterExtraction ==
    /\ recommenderCalls <= 1
    /\ (recReq # Nil) = (recommenderCalls = 1)
    /\ (pc = "recommending" \/ recResult # Nil) => recommenderCalls = 1
    /\ recommenderCalls = 1 =>
        /\ extractorCalls = 1
        /\ ExtractionSucceeded
        /\ Deref(extractResult).params # Nil
        /\ Deref(recReq).DepartureCity = Deref(Deref(extractResult).params).DepartureCity
        /\ Deref(recReq).Destination = Deref(Deref(extractResult).params).Destination
        /\ Ptr(Deref(recReq).DepartureDate) = Deref(Deref(extractResult).params).DepartureDate
        /\ Ptr(Deref(recReq).ReturnDate) = Deref(Deref(extractResult).params).ReturnDate

C6_Witness ==
    /\ pc = "recommending"
    /\ recommenderCalls = 1
    /\ Deref(recReq).DepartureCity = "NYC"
    /\ Deref(recReq).Destination = "Paris"
    /\ Deref(recReq).DepartureDate # Deref(recReq).ReturnDate

(* C7: in the program as wired, the recommendation stage is reached (the   *)
(* recommender called, a recommendation request built) only with           *)
(* extracted parameters that have a non-empty departure city, a non-empty  *)
(* destination, a departure date and a return date.                        *)
C7_ValidatedBeforeRecommendation ==
    (recommenderCalls > 0 \/ recReq # Nil \/ pc = "recommending" \/ (eng = "recommendation" /\ epc # "idle")) =>
        /\ ExtractionSucceeded
        /\ Deref(extractResult).params # Nil
        /\ Deref(Deref(extractResult).params).DepartureCity # ""
        /\ Deref(Deref(extractResult).params).Destination # ""
        /\ Deref(Deref(extractResult).params).DepartureDate # Nil
        /\ Deref(Deref(extractResult).params).ReturnDate # Nil

C7_Witness ==
    /\ eng = "recommendation"
    /\ epc = "awaiting"
    /\ recommenderCalls = 1
    /\ decoderInputs = <<>>

ToolCallsOf(resp) == IF Len(resp.Choices) = 0 THEN <<>> ELSE resp.Choices[1].Message.ToolCalls

RequestNotBuilt ==
    /\ engineResult # Nil
    /\ Deref(engineResult).err # NoError
    /\ Deref(engineResult).err[1] \in {"failed to marshal request", "failed to create request"}

(* C8, as the specification states it: a ProcessRequest invocation that    *)
(* has returned has made exactly one HTTP call.                            *)
C8_ExactlyOneCall == epc = "returned" => httpCalls = 1

(* C8, amended: a ProcessRequest invocation makes at most one HTTP call,   *)
(* and none after its tools ran; it has made exactly one on every path     *)
(* past the serialization of its request (transport error, undecodable     *)
(* body, provider error, no choice, tool-call branch, decoding failure,    *)
(* success), and none when it returned because the request could not be    *)
(* serialized or the HTTP request could not be created.                    *)
C8_OneCallPastMarshal ==
    /\ httpCalls <= 1
    /\ epc \in {"awaiting", "tools"} => httpCalls = 1
    /\ epc = "returned" => (httpCalls = 0) = RequestNotBuilt
    /\ (epc = "returned" /\ httpCalls = 0) => (envelope = Nil /\ toolExecs = <<>> /\ decoderInputs = <<>>)

C8_Witness ==
    /\ epc = "returned"
    /\ httpCalls = 1
    /\ Len(toolExecs) = 2
    /\ Len(decoderInputs) = 1

(* C9: when the envelope carries an error object, with or without choices, *)
(* ProcessRequest has returned the provider error holding the provider's   *)
(* message; when it carries none and no choice, the empty-response error;  *)
(* in both cases no tool was executed and the decoder was not invoked.     *)
C9_ProviderErrorAndNoChoice ==
    envelope # Nil =>
        /\ Deref(envelope).Error # Nil =>
            /\ epc = "returned"
            /\ Deref(engineResult).result = Nil
            /\ Deref(engineResult).err = <<"AI provider error", Deref(Deref(envelope).Error).Message>>
            /\ toolExecs = <<>> /\ toolResults = <<>> /\ decoderInputs = <<>>
        /\ (Deref(envelope).Error = Nil /\ Len(Deref(envelope).Choices) = 0) =>
            /\ epc = "returned"
            /\ Deref(engineResult).result = Nil
            /\ Deref(engineResult).err = <<"no response from AI provider">>
            /\ toolExecs = <<>> /\ toolResults = <<>> /\ decoderInputs = <<>>

C9_Witness ==
    /\ epc = "returned"
    /\ envelope # Nil
    /\ Deref(envelope).Error # Nil
    /\ Len(ToolCallsOf(Deref(envelope))) > 0
    /\ GetTool(toolRegistry[eng], ToolCallsOf(Deref(envelope))[1].Name).ok

(* The tool calls of the round that cannot succeed whatever the tool does: *)
(* the name is not in the registry, or the arguments do not parse.         *)
Unprocessable(call) == ~(\E t \in ListTools(toolRegistry[eng]) : t.Name = call.Name) \/ ~ArgumentsParse(call.Arguments)

InToolRound == epc \in {"tools", "returned"} /\ envelope # Nil /\ Deref(envelope).Error = Nil /\ Len(ToolCallsOf(Deref(envelope))) > 0

(* C10: in the tool-call branch, the tools are executed in list order up   *)
(* to the first call that fails; a call with an unknown tool name or with  *)
(* unparseable arguments is not executed and no call after it is; once a   *)
(* call has failed (unknown name, bad arguments, execution error),         *)
(* ProcessRequest has returned an error wrapped as a tool-call failure and *)
(* no result, and the decoder was not invoked.                             *)
C10_ToolFailureAborts ==
    InToolRound =>
        LET calls == ToolCallsOf(Deref(envelope))
            executed == Len(toolExecs)
        IN  /\ toolExecs = [i \in 1..executed |-> i]
            /\ executed <= Len(calls)
            /\ Len(toolResults) \in {executed, executed - 1}
            /\ \A i \in 1..Len(calls) : Unprocessable(calls[i]) => executed < i
            /\ (Len(toolResults) < executed \/ (epc = "returned" /\ executed < Len(calls))) =>
                /\ epc = "returned"
                /\ Deref(engineResult).result = Nil
                /\ Deref(engineResult).err # NoError
                /\ Deref(engineResult).err[1] = "failed to process tool calls"
                /\ decoderInputs = <<>>
            /\ (epc = "tools" /\ toolIdx <= Len(calls) /\ Unprocessable(calls[toolIdx])) => executed = toolIdx - 1
            /\ (\E i \in 1..Len(calls) : Unprocessable(calls[i])) => decoderInputs = <<>>
            /\ (epc = "returned" /\ \E i \in 1..Len(calls) : Unprocessable(calls[i])) =>
                (Deref(engineResult).result = Nil /\ Deref(engineResult).err[1] = "failed to process tool calls")

C10_Witness ==
    /\ InToolRound
    /\ epc = "returned"
    /\ Len(ToolCallsOf(Deref(envelope))) = 2
    /\ ~Unprocessable(ToolCallsOf(Deref(envelope))[1])
    /\ ~Unprocessable(ToolCallsOf(Deref(envelope))[2])
    /\ toolExecs = <<1>>
    /\ toolResults = <<>>

(* C11: the decoder is invoked at most once, and the text it is given is   *)
(* decided by the first choice alone: when the first choice carries tool   *)
(* calls, the serialized list of one {tool_call_id, name, result} tuple    *)
(* per call, in call order, and not the message content; when it carries   *)
(* none, the first choice's message content.  What ProcessRequest returns  *)
(* is what the decoder makes of that text.                                 *)
C11_DecoderInput ==
    (envelope # Nil /\ decoderInputs # <<>>) =>
        LET first == Deref(envelope).Choices[1]
            calls == first.Message.ToolCalls
        IN  /\ Len(decoderInputs) = 1
            /\ epc = "returned"
            /\ \E now \in Clocks : Deref(engineResult) = DecodeResponse(eng, decoderInputs[1], now)
            /\ Len(calls) = 0 => (decoderInputs[1] = first.Message.Content /\ toolExecs = <<>>)
            /\ Len(calls) > 0 =>
                /\ decoderInputs[1] = ArrayJSON(toolResults)
                /\ decoderInputs[1] # first.Message.Content
                /\ Len(toolResults) = Len(calls)
                /\ \A i \in 1..Len(calls) :
                    /\ toolResults[i].tool_call_id = calls[i].ID
                    /\ toolResults[i].name = calls[i].Name
                    /\ toolResults[i].result \in { o.result : o \in { x \in ToolOutcomes : x.err = NoError } }

C11_Witness ==
    /\ epc = "returned"
    /\ envelope # Nil
    /\ Len(Deref(envelope).Choices) = 2
    /\ Len(Deref(envelope).Choices[1].Message.ToolCalls) = 1
    /\ Len(Deref(envelope).Choices[2].Message.ToolCalls) = 0
    /\ Deref(envelope).Choices[1].Message.Content = GoodContent(eng)
    /\ decoderInputs = <<ArrayJSON(toolResults)>>
    /\ Len(toolResults) = 1

(* C12: the provider request ProcessRequest builds has the fixed model     *)
(* identifier, exactly two messages, the system prompt then the user       *)
(* prompt the prompt strategy renders for the request, and the response    *)
(* format "json_object"; it carries tool descriptors and the tool choice   *)
(* "auto" exactly when the engine's registry holds a tool, and then one    *)
(* descriptor per registered tool.                                         *)
C12_ProviderRequestShape ==
    aiReq # Nil =>
        LET r == Deref(aiReq)
            registry == ListTools(toolRegistry[eng])
        IN  /\ r.Model = "mistral-large-latest"
            /\ Len(r.Messages) = 2
            /\ r.Messages[1] = [Role |-> "system", Content |-> GetSystemPrompt(eng)]
            /\ r.Messages[2].Role = "user"
            /\ r.Messages[2].Content \in { GetUserPrompt(eng, request) : request \in EngineRequests(eng) }
            /\ r.ResponseFormat.Type = "json_object"
            /\ (r.Tools # {}) = (registry # {})
            /\ (r.ToolChoice = "auto") = (registry # {})
            /\ registry = {} => r.ToolChoice = ""
            /\ Cardinality(r.Tools) = Cardinality(registry)
            /\ { d.name : d \in r.Tools } = { t.Name : t \in registry }
            /\ \A d \in r.Tools : \E t \in registry : d.name = t.Name /\ d.parameters = t.Parameters

C12_Witness ==
    /\ aiReq # Nil
    /\ Cardinality(Deref(aiReq).Tools) = 2
    /\ Deref(aiReq).ToolChoice = "auto"
    /\ epc = "awaiting"

(* C13: a RegisterTool call with a tool whose name is already registered   *)
(* returns the duplicate-tool error and leaves the registry as it was: the *)
(* names are the same and the entry under that name is still the first     *)
(* tool; this whatever the schema of the second tool, which is not looked  *)
(* at (no schema error, no panic).                                         *)
C13_DuplicateRejected ==
    [][ \A tool \in ToolArguments, order \in PropertyOrders :
            (RegisterTool(eng, tool, order) /\ tool # Nil /\ \E t \in ListTools(toolRegistry[eng]) : t.Name = Deref(tool).Name) =>
                /\ registerResult' = Ptr([tool |-> tool, err |-> <<"already registered", Deref(tool).Name>>])
                /\ toolRegistry' = toolRegistry
                /\ { t.Name : t \in ListTools(toolRegistry'[eng]) } = { t.Name : t \in ListTools(toolRegistry[eng]) }
                /\ GetTool(toolRegistry'[eng], Deref(tool).Name) = GetTool(toolRegistry[eng], Deref(tool).Name)
                /\ epc' = epc ]_vars

C13_Witness ==
    /\ registerResult # Nil
    /\ Deref(registerResult).tool # Nil
    /\ Deref(registerResult).err = <<"already registered", "flight_search">>
    /\ Deref(Deref(registerResult).tool).Parameters = "property not a map"
    /\ \E t \in ListTools(toolRegistry[eng]) : t.Name = "flight_search" /\ t.Parameters = "valid"
    /\ epc = "idle"

(* The schemas C14 is about: nil, without "type", without "properties", or *)
(* with a declared property that has no "type".                            *)
InvalidSchemas == {"nil", "no type", "no properties", "property without type", "property not a map", "mixed properties"}

(* C14: a RegisterTool call with a tool of a new name and such a schema    *)
(* does not panic, returns an error and does not register the tool.        *)
C14_InvalidSchemaRejected ==
    (registerResult # Nil /\ Deref(registerResult).tool # Nil /\ Deref(Deref(registerResult).tool).Parameters \in InvalidSchemas) =>
        /\ epc # "panicked"
        /\ Deref(registerResult).err # NoError
        /\ Deref(Deref(registerResult).tool) \notin ListTools(toolRegistry[eng])

(* The extraction decoder was given a document that parses into            *)
(* TravelParameters whose return date is earlier than the departure date.  *)
DecodedReturnBeforeDeparture ==
    /\ eng = "extraction"
    /\ epc = "returned"
    /\ decoderInputs # <<>>
    /\ UnmarshalTravelParameters(decoderInputs[1]).err = NoError
    /\ UnmarshalTravelParameters(decoderInputs[1]).value.DepartureDate # Nil
    /\ UnmarshalTravelParameters(decoderInputs[1]).value.ReturnDate # Nil
    /\ Deref(UnmarshalTravelParameters(decoderInputs[1]).value.ReturnDate) < Deref(UnmarshalTravelParameters(decoderInputs[1]).value.DepartureDate)

(* C15, as the specification states it: such a document always fails with  *)
(* the date-ordering error.                                                *)
C15_AlwaysDateOrderingError ==
    DecodedReturnBeforeDeparture =>
        /\ Deref(engineResult).result = Nil
        /\ Deref(engineResult).err = <<"invalid travel parameters", "return date cannot be before departure date">>

(* C15, amended: such a document always fails with an invalid-parameters   *)
(* error and no parameters are returned, swapped or not; the error is the  *)
(* date-ordering error when the checks made before it pass (both cities    *)
(* non-empty, departure date not before the clock reading), and otherwise  *)
(* the error of the first of those checks that fails.                      *)
C15_ReturnBeforeDepartureRejected ==
    DecodedReturnBeforeDeparture =>
        LET params == UnmarshalTravelParameters(decoderInputs[1]).value
            cause == Deref(engineResult).err[2]
        IN  /\ Deref(engineResult).result = Nil
            /\ Len(Deref(engineResult).err) = 2
            /\ Deref(engineResult).err[1] = "invalid travel parameters"
            /\ params.DepartureCity = "" => cause = "departure city is required"
            /\ (params.DepartureCity # "" /\ params.Destination = "") => cause = "destination is required"
            /\ (params.DepartureCity # "" /\ params.Destination # "") =>
                /\ Len(clockReads) = 1
                /\ Deref(params.DepartureDate) < clockReads[1] => cause = "departure date cannot be in the past"
                /\ Deref(params.DepartureDate) >= clockReads[1] => cause = "return date cannot be before departure date"

C15_Witness ==
    /\ DecodedReturnBeforeDeparture
    /\ clockReads # <<>>
    /\ Deref(UnmarshalTravelParameters(decoderInputs[1]).value.DepartureDate) >= clockReads[1]
    /\ Deref(engineResult).err = <<"invalid travel parameters", "return date cannot be before departure date">>

(* The texts encoding/json cannot parse into the struct of a task: text    *)
(* that is not JSON, a JSON array, and an object in which a key of the     *)
(* struct holds a value of another JSON type.                              *)
Unparseable(content) ==
    \/ content.json \in {"invalid", "array"}
    \/ (content.json = "object" /\ content.shape = "mistyped")

(* C16: when either decoder is given a text that does not parse into its   *)
(* task's struct, DecodeResponse returns no result and the parse error of  *)
(* its task wrapping the error of encoding/json; validate is not run: the  *)
(* error is none of its messages and the clock is not read.                *)
C16_ParseErrorBeforeValidation ==
    (epc = "returned" /\ decoderInputs # <<>> /\ Unparseable(decoderInputs[1])) =>
        /\ Deref(engineResult).result = Nil
        /\ Len(Deref(engineResult).err) = 2
        /\ Deref(engineResult).err[1] = (IF eng = "extraction" THEN "failed to parse travel parameters" ELSE "failed to decode flight recommendations")
        /\ Deref(engineResult).err[2] \in {"invalid character", "json: cannot unmarshal array into Go value", "json: cannot unmarshal into Go struct field"}
        /\ clockReads = <<>>

C16_Witness ==
    /\ epc = "returned"
    /\ eng = "recommendation"
    /\ decoderInputs = <<MistypedJSON>>
    /\ Deref(engineResult).err[1] = "failed to decode flight recommendations"

(* The recommendation decoder was given a document that parses.            *)
DecodedRecommendation ==
    /\ eng = "recommendation"
    /\ epc = "returned"
    /\ decoderInputs # <<>>
    /\ ~Unparseable(decoderInputs[1])

(* What a parsed document holds: the zero value unless it is an object     *)
(* with the keys of a FlightRecommendation.                                *)
ParsedRecommendation(content) ==
    IF content.json = "object" /\ content.shape = "flight_recommendation" THEN content.fr ELSE [Recommendations |-> <<>>, Reasoning |-> ""]

(* C17: the recommendation decoder returns the parsed FlightRecommendation *)
(* if and only if its list is not empty, every flight in it has an         *)
(* airline, a flight number and a price above zero, and the reasoning is   *)
(* not empty; otherwise it returns no result and an invalid-               *)
(* recommendations error, in particular for an empty list.                 *)
C17_RecommendationValidIff ==
    DecodedRecommendation =>
        LET rec == ParsedRecommendation(decoderInputs[1])
            valid == /\ Len(rec.Recommendations) > 0
                     /\ \A i \in 1..Len(rec.Recommendations) :
                            /\ rec.Recommendations[i].Airline # ""
                            /\ rec.Recommendations[i].FlightNumber # ""
                            /\ rec.Recommendations[i].Price > 0
                     /\ rec.Reasoning # ""
        IN  /\ (Deref(engineResult).result # Nil) = valid
            /\ valid => (Deref(engineResult).result = Ptr(rec) /\ Deref(engineResult).err = NoError)
            /\ ~valid => (Deref(engineResult).err # NoError /\ Deref(engineResult).err[1] = "invalid flight recommendations")
            /\ Len(rec.Recommendations) = 0 => Deref(engineResult).err = <<"invalid flight recommendations", "no flight recommendations provided">>

C17_Witness ==
    /\ DecodedRecommendation
    /\ decoderInputs[1] = FlightRecommendationJSON([Recommendations |-> <<>>, Reasoning |-> "best value"])
    /\ Deref(engineResult).result = Nil

(* C18: the recommendation request carries the extracted travel class and  *)
(* the extracted top of the budget range when the TravelParameters have    *)
(* them, and the defaults (economy, 2000) only when they do not; it is for *)
(* one passenger.                                                          *)
C18_DefaultsOnlyWhereUnspecified ==
    (recReq # Nil /\ ExtractionSucceeded /\ Deref(extractResult).params # Nil) =>
        LET prefs == Deref(Deref(extractResult).params).Preferences
        IN  /\ Deref(recReq).Passengers = 1
            /\ Deref(recReq).PreferredClass = (IF prefs.TravelClass # "" THEN prefs.TravelClass ELSE "economy")
            /\ Deref(recReq).MaxBudget = (IF prefs.BudgetRange.Max # Nil THEN Deref(prefs.BudgetRange.Max) ELSE 2000)

(* C19: when the context expired or was cancelled before the provider's    *)
(* response was received, ProcessRequest waits for no response: it returns *)
(* no result and the context's error, as is; no response was decoded, no   *)
(* tool was executed and the decoder was not invoked.                      *)
C19_ContextDoneAborts ==
    ctxErr # NoError =>
        /\ epc \in {"awaiting", "returned"}
        /\ ctxErr \in { <<"context deadline exceeded">>, <<"context canceled">> }
        /\ envelope = Nil /\ toolExecs = <<>> /\ toolResults = <<>> /\ decoderInputs = <<>>
        /\ epc = "awaiting" => engineResult = Nil
        /\ epc = "returned" => (Deref(engineResult).result = Nil /\ Deref(engineResult).err = ctxErr)

C19_Witness ==
    /\ epc = "returned"
    /\ ctxErr = <<"context canceled">>
    /\ Deref(engineResult).err = <<"context canceled">>
    /\ ListTools(toolRegistry[eng]) # {}
    /\ httpCalls = 1

(* The validation errors of the decoders in the error ProcessBooking       *)
(* returned.                                                               *)
InvalidDomainOutput == \E i \in 1..Len(err) : err[i] \in {"invalid travel parameters", "invalid flight recommendations"}

(* C20: CreateBooking answers with a 4xx status for a malformed body, an   *)
(* empty query, a missing or past deadline and for invalid domain output   *)
(* from decoding; with 500 for every other failure of ProcessBooking; and  *)
(* with 200 only when ProcessBooking returned a response.                  *)
C20_ValidationErrorsAreClientErrors ==
    hpc = "answered" =>
        /\ status = 200 => (pc = "done" /\ response # Nil /\ err = NoError)
        /\ pc = "idle" => status \in 400..499
        /\ (pc = "done" /\ err # NoError /\ InvalidDomainOutput) => status \in 400..499
        /\ (pc = "done" /\ err # NoError /\ ~InvalidDomainOutput) => status = 500

(* C21: the error ProcessBooking returns names the failing stage and keeps *)
(* the cause: the error of the extractor is returned under "parameter      *)
(* extraction failed", the error of the recommender under "failed to get   *)
(* flight recommendations", each followed by the unchanged chain of the    *)
(* engine's error; the two never start alike.                              *)
C21_StageAndCauseKept ==
    (pc = "done" /\ err # NoError) =>
        /\ (extractResult # Nil /\ Deref(extractResult).err # NoError) =>
               /\ err = <<"parameter extraction failed", "AI extraction failed">> \o Deref(extractResult).err
               /\ recResult = Nil
        /\ (recResult # Nil /\ Deref(recResult).err # NoError) =>
               /\ err = <<"failed to get flight recommendations", "AI recommendation failed">> \o Deref(recResult).err
               /\ err[1] # "parameter extraction failed"
               /\ Deref(extractResult).err = NoError

(* ProcessBooking has returned the recommender's "context deadline         *)
(* exceeded" under the recommendation stage's context.                     *)
C21_Witness ==
    /\ pc = "done"
    /\ recResult # Nil
    /\ Deref(recResult).err = <<"context deadline exceeded">>
    /\ err = <<"failed to get flight recommendations", "AI recommendation failed", "context deadline exceeded">>

(* The extraction rules in the order the specification gives them, by the  *)
(* message of the error each one raises.                                   *)
ExtractionRules ==
    << "departure city is required", "destination is required", "departure date is required", "return date is required",
       "departure date cannot be in the past", "return date cannot be before departure date" >>

(* The rules the parameters violate when the clock reads now.              *)
ViolatedRules(params, now) ==
    { i \in 1..6 :
        \/ i = 1 /\ params.DepartureCity = ""
        \/ i = 2 /\ params.Destination = ""
        \/ i = 3 /\ params.DepartureDate = Nil
        \/ i = 4 /\ params.ReturnDate = Nil
        \/ i = 5 /\ params.DepartureDate # Nil /\ Deref(params.DepartureDate) < now
        \/ i = 6 /\ params.DepartureDate # Nil /\ params.ReturnDate # Nil /\ Deref(params.ReturnDate) < Deref(params.DepartureDate) }

(* The extraction decoder was given a document that parses.                *)
DecodedTravelParameters ==
    /\ eng = "extraction"
    /\ epc = "returned"
    /\ decoderInputs # <<>>
    /\ UnmarshalTravelParameters(decoderInputs[1]).err = NoError

(* C22: when the parsed TravelParameters violate extraction rules, the     *)
(* error of DecodeResponse is that of the first violated rule in the order *)
(* departure city, destination, departure date, return date, departure in  *)
(* the past, return before departure, whatever the clock reads; when they  *)
(* violate none, DecodeResponse returns them.                              *)
C22_FirstViolatedRuleReported ==
    DecodedTravelParameters =>
        \A now \in Clocks :
            (clockReads # <<>> => now = clockReads[1]) =>
                LET params == UnmarshalTravelParameters(decoderInputs[1]).value
                    violated == ViolatedRules(params, now)
                    first == CHOOSE i \in violated : \A j \in violated : i <= j
                IN  IF violated = {}
                    THEN Deref(engineResult) = [result |-> Ptr(params), err |-> NoError]
                    ELSE Deref(engineResult) = [result |-> Nil, err |-> <<"invalid travel parameters", ExtractionRules[first]>>]

(* A document without a destination whose return date is before its       *)
(* departure date was rejected for the missing destination.                *)
C22_Witness ==
    /\ DecodedTravelParameters
    /\ Cardinality(ViolatedRules(UnmarshalTravelParameters(decoderInputs[1]).value, 0)) >= 2
    /\ 6 \in ViolatedRules(UnmarshalTravelParameters(decoderInputs[1]).value, 0)
    /\ Deref(engineResult).err = <<"invalid travel parameters", "destination is required">>

(* C23: the progress message of a successful BookingResponse names the     *)
(* destination the extraction stage produced for the request, whatever     *)
(* list of recommendations the model returned.                             *)
C23_MessageNamesDestination ==
    (pc = "done" /\ response # Nil) =>
        Deref(response).Message = <<"Searching for flights to ", Deref(Deref(extractResult).params).Destination>>

(* C24: once registration is over the registry is read-only: no step of a  *)
(* ProcessRequest invocation (its entry, the provider's answer, a tool     *)
(* call, succeeding or failing) changes an engine's registry or API key,   *)
(* and a step that changes a registry is a RegisterTool call that returned *)
(* no error and added the tool it was given.                               *)
C24_RegistryReadOnly ==
    [][ /\ apiKey' = apiKey
        /\ epc' \in {"awaiting", "tools", "returned"} => toolRegistry' = toolRegistry
        /\ toolRegistry' # toolRegistry =>
               /\ epc = "idle"
               /\ registerResult' # Nil
               /\ Deref(registerResult').err = NoError
               /\ ListTools(toolRegistry'[eng]) = ListTools(toolRegistry[eng]) \cup {Deref(Deref(registerResult').tool)}
      ]_vars

(* A ProcessRequest on an engine with a registered tool has ended in a     *)
(* tool-call round that failed after executing that tool, and the registry *)
(* still holds the tool.                                                   *)
C24_Witness ==
    /\ epc = "returned"
    /\ toolExecs # <<>>
    /\ Deref(engineResult).err # NoError
    /\ Deref(engineResult).err[1] = "failed to process tool calls"
    /\ GetTool(toolRegistry[eng], FirstChoice(Deref(envelope)).Message.ToolCalls[1].Name).ok
    /\ apiKey[eng] = APIKey

(* C25: within a tool-call round the tools are executed one at a time in   *)
(* the order of the tool calls of the provider response, each call at most *)
(* once; the i-th collected tuple carries the id and the name of the i-th  *)
(* call; and when every call succeeded the decoder is given the tuples of  *)
(* all the calls, in the order of the calls.                               *)
C25_ToolCallsInOrder ==
    InToolRound =>
        LET calls == ToolCallsOf(Deref(envelope))
        IN  /\ Len(toolExecs) <= Len(calls)
            /\ \A i \in 1..Len(toolExecs) : toolExecs[i] = i
            /\ Len(toolResults) <= Len(toolExecs)
            /\ \A i \in 1..Len(toolResults) :
                   /\ toolResults[i].tool_call_id = calls[i].ID
                   /\ toolResults[i].name = calls[i].Name
            /\ epc = "tools" => (Len(toolResults) = toolIdx - 1 /\ Len(toolExecs) = toolIdx - 1)
            /\ decoderInputs # <<>> =>
                   /\ toolExecs = [i \in 1..Len(calls) |-> i]
                   /\ Len(toolResults) = Len(calls)
                   /\ decoderInputs = <<ArrayJSON(toolResults)>>

(* A round of two calls of different tools has succeeded: both tools ran,  *)
(* the first before the second, and the decoder was given the two tuples.  *)
C25_Witness ==
    /\ InToolRound
    /\ epc = "returned"
    /\ Len(ToolCallsOf(Deref(envelope))) = 2
    /\ ToolCallsOf(Deref(envelope))[1].Name # ToolCallsOf(Deref(envelope))[2].Name
    /\ toolExecs = <<1, 2>>
    /\ Len(toolResults) = 2
    /\ decoderInputs = <<ArrayJSON(toolResults)>>

(* C26: in a ProcessRequest invocation the decoding strategy is invoked at *)
(* most once, and only after the one HTTP call returned an envelope that   *)
(* decoded, carries no provider error and has a choice, and after every    *)
(* tool call of the first choice succeeded; what ProcessRequest returns is *)
(* then the decoder's result and error, unmodified.                        *)
C26_DecoderLastAndUnmodified ==
    /\ Len(decoderInputs) <= 1
    /\ decoderInputs # <<>> =>
           /\ epc = "returned"
           /\ httpCalls = 1
           /\ envelope # Nil
           /\ Deref(envelope).Error = Nil
           /\ Len(Deref(envelope).Choices) >= 1
           /\ LET calls == ToolCallsOf(Deref(envelope))
              IN  Len(calls) > 0 =>
                      /\ \A i \in 1..Len(calls) : ~Unprocessable(calls[i])
                      /\ toolExecs = [i \in 1..Len(calls) |-> i]
                      /\ Len(toolResults) = Len(calls)
                      /\ \A i \in 1..Len(calls) : toolResults[i].serializable
           /\ \A now \in Clocks :
                  (clockReads # <<>> => now = clockReads[1]) =>
                      Deref(engineResult) = DecodeResponse(eng, decoderInputs[1], now)

(* The decoder rejected the content of the first choice and ProcessRequest *)
(* returned the decoder's error as it was.                                 *)
C26_Witness ==
    /\ epc = "returned"
    /\ decoderInputs # <<>>
    /\ ToolCallsOf(Deref(envelope)) = <<>>
    /\ Deref(engineResult).result = Nil
    /\ Len(Deref(engineResult).err) = 2
    /\ Deref(engineResult).err[1] \in {"invalid travel parameters", "invalid flight recommendations"}

(* A ProcessRequest called with the decoder of its engine's task (the      *)
(* extraction or the recommendation decoder) has returned, and the first   *)
(* choice of the provider's response carried a tool call.                  *)
ReturnedFromToolRound == InToolRound /\ epc = "returned"

(* C27: with the extraction and the recommendation decoder, a              *)
(* ProcessRequest whose provider response carries a tool call never        *)
(* returns a result: it ends in a tool-call error, or, the effective       *)
(* content being a JSON list, in the parse error of the decoder.           *)
C27_ToolRoundNeverSucceeds ==
    ReturnedFromToolRound =>
        /\ Deref(engineResult).result = Nil
        /\ Deref(engineResult).err # NoError
        /\ \/ Deref(engineResult).err[1] = "failed to process tool calls" /\ decoderInputs = <<>>
           \/ /\ decoderInputs = <<ArrayJSON(toolResults)>>
              /\ Deref(engineResult).err = <<IF eng = "extraction" THEN "failed to parse travel parameters" ELSE "failed to decode flight recommendations", "json: cannot unmarshal array into Go value">>

(* Every tool call of the response succeeded and the decoder refused the   *)
(* list of their results.                                                  *)
C27_Witness ==
    /\ ReturnedFromToolRound
    /\ decoderInputs = <<ArrayJSON(toolResults)>>
    /\ Len(toolResults) = Len(ToolCallsOf(Deref(envelope)))
    /\ Deref(engineResult).err[2] = "json: cannot unmarshal array into Go value"

(* The schemas that declare "type" and "properties" and give every         *)
(* property a "type".                                                      *)
WellFormedSchemas == {"valid"}

(* C28: after any sequence of RegisterTool calls, every entry of the       *)
(* registry is stored under its tool's name and has a well-formed schema;  *)
(* GetTool reports a tool exactly for the names of the registrations that  *)
(* returned nil, and reports that registration's tool; and the registry    *)
(* has as many entries as there were such registrations.                   *)
C28_RegistryMatchesRegistrations ==
    LET registry == toolRegistry[eng]
    IN  /\ \A k \in DOMAIN registry :
               /\ registry[k].Name = k
               /\ registry[k].Parameters \in WellFormedSchemas
        /\ \A name \in ToolCallNames :
               /\ GetTool(registry, name).ok = (\E t \in BagToSet(registered) : t.Name = name)
               /\ GetTool(registry, name).ok => \E t \in BagToSet(registered) : GetTool(registry, name).tool = Ptr(t)
        /\ Cardinality(DOMAIN registry) = BagCardinality(registered)
        /\ Cardinality(ListTools(registry)) = BagCardinality(registered)

(* Two tools were registered and a third call then failed.                 *)
C28_Witness ==
    /\ BagCardinality(registered) = 2
    /\ registerResult # Nil
    /\ Deref(registerResult).err # NoError
    /\ DOMAIN toolRegistry[eng] = ToolNames

(* C29: a ProcessBooking call whose context eventually ends and whose tool *)
(* executions return eventually returns a response or an error; it calls   *)
(* each engine at most once, the extractor before the recommender, and an  *)
(* engine invocation makes at most one HTTP call.                          *)
C29_ProcessBookingReturns ==
    /\ [](extractorCalls <= 1 /\ recommenderCalls <= extractorCalls /\ httpCalls <= 1)
    /\ [](pc = "recommending" => (extractResult # Nil /\ recResult = Nil))
    /\ (pc \in {"extracting", "recommending"}) ~> (pc = "done" /\ (response = Nil) # (err = NoError))

(* The context ended while the recommendation engine waited for the        *)
(* provider, and ProcessBooking returned the context's error.              *)
C29_Witness ==
    /\ pc = "done"
    /\ eng = "recommendation"
    /\ ctxErr = <<"context deadline exceeded">>
    /\ err = <<"failed to get flight recommendations", "AI recommendation failed", "context deadline exceeded">>
    /\ extractorCalls = 1
    /\ recommenderCalls = 1

(* C30: when several ProcessBooking calls run concurrently on one          *)
(* BookingService, in every interleaving each call works on its own        *)
(* values: the request it hands to the recommender is built from the       *)
(* TravelParameters the extractor returned to it, its error wraps the      *)
(* error an engine returned to it, and its response carries its own query  *)
(* and deadline and the first flight of the list returned to it.           *)
C30_CallsIsolated ==
    \A c \in CallIds :
        /\ inflight[c].recReq # Nil =>
               /\ inflight[c].extractResult # Nil
               /\ Deref(inflight[c].extractResult).err = NoError
               /\ Deref(inflight[c].recReq).DepartureCity = Deref(Deref(inflight[c].extractResult).params).DepartureCity
               /\ Deref(inflight[c].recReq).Destination = Deref(Deref(inflight[c].extractResult).params).Destination
               /\ Deref(inflight[c].recReq).DepartureDate = Deref(Deref(Deref(inflight[c].extractResult).params).DepartureDate)
               /\ Deref(inflight[c].recReq).ReturnDate = Deref(Deref(Deref(inflight[c].extractResult).params).ReturnDate)
        /\ inflight[c].response # Nil =>
               /\ inflight[c].pc = "done"
               /\ inflight[c].err = NoError
               /\ Deref(inflight[c].response).Query = inflight[c].req.Query
               /\ Deref(inflight[c].response).Deadline = inflight[c].req.Deadline
               /\ Deref(inflight[c].response).ID = ConcurrentUUID(c)
               /\ Deref(Deref(inflight[c].response).FlightDetails).FlightNumber = Deref(Deref(inflight[c].recResult).rec).Recommendations[1].FlightNumber
               /\ Deref(Deref(inflight[c].response).FlightDetails).ArrivalCity = Deref(Deref(inflight[c].recResult).rec).Recommendations[1].ArrivalCity
        /\ (inflight[c].pc = "done" /\ inflight[c].err # NoError) =>
               /\ inflight[c].response = Nil
               /\ inflight[c].extractResult = Nil => inflight[c].err = <<"query cannot be empty">>
               /\ (inflight[c].extractResult # Nil /\ Deref(inflight[c].extractResult).err # NoError) =>
                      inflight[c].err = <<"parameter extraction failed", "AI extraction failed">> \o Deref(inflight[c].extractResult).err
               /\ (inflight[c].recResult # Nil /\ Deref(inflight[c].recResult).err # NoError) =>
                      inflight[c].err = <<"failed to get flight recommendations", "AI recommendation failed">> \o Deref(inflight[c].recResult).err

(* Two calls with different queries were interleaved stage by stage, were  *)
(* given different parameters and different flights, and both returned a   *)
(* response.                                                               *)
C30_Witness ==
    /\ inflight[1].response # Nil
    /\ inflight[2].response # Nil
    /\ inflight[1].req.Query # inflight[2].req.Query
    /\ inflight[1].req.Deadline # inflight[2].req.Deadline
    /\ inflight[1].extractResult # inflight[2].extractResult
    /\ Deref(inflight[1].response).FlightDetails # Deref(inflight[2].response).FlightDetails

====
